---- MODULE Spec2Model ----
(***************************************************************************)
(* State-machine model of the security core of the storefront:            *)
(* session security (app/session_security.py, the before_request hook of  *)
(* app/__init__.py), the login / MFA routes (app/auth/routes.py), the     *)
(* encrypted column type (app/models.py, app/encryption.py) and the audit *)
(* listeners (app/audit.py).                                              *)
(*                                                                         *)
(* One step of the model is one whole HTTP request of one browser: the    *)
(* before_request hook, the route handler, the commit with its audit      *)
(* listeners, and Flask-Login's cookie handling.  Time is in minutes.     *)
(***************************************************************************)
EXTENDS Integers, Sequences, FiniteSets, TLC

VARIABLES
    now,        \* datetime.utcnow(), in minutes
    users,      \* table users: id -> persisted row (columns as stored)
    orders,     \* table orders: id -> persisted row
    products,   \* table products: id -> persisted row
    cart_items, \* table cart_items: id -> persisted row
    order_items, \* table order_items: id -> persisted row
    checkouts,  \* the checkout requests in flight: what each has loaded
    audit,      \* table audit_logs: sequence of persisted rows
    session,    \* the browser's Flask session (signed cookie)
    remember,   \* Flask-Login's remember-me cookie: a user id, 0 = no cookie
    resp        \* the response to (and the log line of) the last request

vars == <<now, users, orders, products, cart_items, order_items, checkouts,
          audit, session, remember, resp>>

----------------------------------------------------------------------------
(* Bounds of the model *)

MaxUsers == 2
MaxNow == 60
MaxAudit == 3

(* Program constants *)

InactivityTimeout == 30
AbsoluteTimeout == 24 * 60

Uids == 1 .. MaxUsers
IPs == {"10.0.0.1", "10.0.0.2"}
Secrets == {"S1"}
Passwords == {"admin123", "customer123"}
Nonces == {"n1"}
ENCRYPTION_KEY == "k"

(* Python values.  None is the empty tuple; a str x is the 1-tuple <<x>>;   *)
(* an id is a positive integer and 0 stands for a missing / None id.       *)
None == <<>>

----------------------------------------------------------------------------
(* app/encryption.py *)

(* Mutant: the data is returned as it is *)
encrypt_identity(nonce, raw_data) == raw_data

encrypt(nonce, raw_data) ==
    IF raw_data = None THEN None
    ELSE <<"gcm", ENCRYPTION_KEY, nonce, raw_data>>

(* A token is the base64 text of nonce + tag + ciphertext.  The text of a  *)
(* token that was edited afterwards is the 5-tuple of the token and the    *)
(* edit: "junk" (characters outside the base64 alphabet inserted), or a    *)
(* changed "nonce", "tag" or "ciphertext" byte, or "truncated" bytes.      *)
Edits == {"junk", "nonce", "tag", "ciphertext", "truncated"}

(* base64.b64decode(enc_data), validate=False: characters outside the      *)
(* alphabet are discarded before decoding.  <<key, nonce, plaintext,       *)
(* damage>> for the bytes of a token, <<>> for anything else (the call     *)
(* raises, or the bytes hold no nonce, tag and ciphertext).                *)
b64decode(enc_data) ==
    IF Len(enc_data) = 4 /\ enc_data[1] = "gcm"
    THEN <<enc_data[2], enc_data[3], enc_data[4], "intact">>
    ELSE IF Len(enc_data) = 5 /\ enc_data[1] = "gcm"
         THEN <<enc_data[2], enc_data[3], enc_data[4],
                IF enc_data[5] = "junk" THEN "intact" ELSE enc_data[5]>>
         ELSE <<>>

(* AES-GCM under the key of the cipher: the tag verifies only for the      *)
(* undamaged bytes of a token made under the same key; every exception is  *)
(* caught and answered with None.                                          *)
decrypt(enc_data) ==
    IF enc_data = None THEN None
    ELSE LET data == b64decode(enc_data)
         IN  IF Len(data) = 4 /\ data[1] = ENCRYPTION_KEY /\ data[4] = "intact"
             THEN data[3]
             ELSE None

(* AESCipher.__init__.  The text of a key is described by the number of    *)
(* its characters of the base64 alphabet, of its trailing '=' and of its   *)
(* other characters (ASCII, placed anywhere); a key that is None or ''     *)
(* is the text of no character.  Bytes are described by their number.      *)
KeyLength == 32

AlphabetLengths == {0, 22, 23, 31, 32, 43}
Pads == 0 .. 2
Others == {0, 1, 9}

KeyText(alphabet, pad, other) == [alphabet |-> alphabet, pad |-> pad, other |-> other]
Unset == KeyText(0, 0, 0)
KeyTexts == {KeyText(a, p, o) : a \in AlphabetLengths, p \in Pads, o \in Others}

(* base64.urlsafe_b64decode(key_str): characters outside the alphabet are  *)
(* discarded; the call raises (<<>>) for a lone character in the last      *)
(* group or missing padding, and otherwise answers 3 bytes for 4           *)
(* characters, rounded down.                                               *)
urlsafe_b64decode(key_str) ==
    IF \/ key_str.alphabet % 4 = 1
       \/ key_str.pad < (4 - (key_str.alphabet % 4)) % 4
    THEN <<>>
    ELSE <<(3 * key_str.alphabet) \div 4>>

(* key_str.encode() *)
encode(key_str) == <<key_str.alphabet + key_str.pad + key_str.other>>

(* The constructor answers "cipher" or the ValueError it raises *)
AESCipher(key, environ) ==
    LET key_str == IF key # Unset THEN key ELSE environ
        decoded == urlsafe_b64decode(key_str)
        self_key == IF decoded # <<>> THEN decoded ELSE encode(key_str)
    IN  IF key_str = Unset
        THEN "ValueError: ENCRYPTION_KEY environment variable is not set"
        ELSE IF self_key[1] # KeyLength
             THEN "ValueError: Key must be 32 bytes for AES-256"
             ELSE "cipher"

(* Mutant: every call of os.urandom answers the same bytes *)
urandom_fixed(drawn) == {"n1"}

(* os.urandom(12): 96 random bits.  A value that was drawn before comes    *)
(* again with probability 2^-96 per pair of calls; the model leaves that   *)
(* event out, as it leaves out a forged tag: a draw is a value not drawn   *)
(* before.                                                                 *)
Urandom == {"n1", "n2", "n3"}
urandom(drawn) == Urandom \ drawn

(* app/models.py: EncryptedString *)

(* Mutant: the value is bound as it is *)
process_bind_param_plain(nonce, value) == value

process_bind_param(nonce, value) ==
    IF value # None THEN encrypt(nonce, value) ELSE value

(* Mutant: no fallback to the stored value *)
process_result_value_strict(value) ==
    IF value # None THEN decrypt(value) ELSE value

process_result_value(value) ==
    IF value # None
    THEN LET decrypted == decrypt(value)
         IN  IF decrypted # None THEN decrypted ELSE value
    ELSE value

(* app/models.py: User.set_password / User.check_password *)

generate_password_hash(password) == <<"bcrypt", password>>

(* Mutant: every password is accepted *)
check_password_any(user, password) == TRUE

check_password(user, password) ==
    user.password_hash = generate_password_hash(password)

(* The in-memory entity loaded from a persisted row: protected columns are  *)
(* decrypted on load.                                                       *)
LoadEntity(row) ==
    [row EXCEPT !.phone = process_result_value(row.phone),
                !.address = process_result_value(row.address),
                !.mfa_secret = process_result_value(row.mfa_secret)]

(* The columns of User that the modelled handlers read or write (the        *)
(* names, the e-mail and the two timestamps are left out).                  *)
UserColumns == {"password_hash", "role", "is_active", "phone", "address",
                "mfa_secret", "mfa_enabled"}
ProtectedColumns == {"phone", "address", "mfa_secret"}

(* The columns of Order and of Product (the id and created_at are left out) *)
OrderColumns == {"user_id", "order_number", "status", "total_amount",
                 "shipping_address", "payment_method", "card_number",
                 "card_expiry", "card_cvv", "bank_account", "notes",
                 "updated_at"}
OrderProtectedColumns == {"shipping_address", "card_number", "card_expiry",
                          "card_cvv", "bank_account"}
ProductColumns == {"name", "slug", "description", "price", "stock", "image",
                   "category_id", "is_active", "updated_at"}

(* mapper.column_attrs of a mapped class *)
column_attrs(resource_type) ==
    CASE resource_type = "User" -> UserColumns
      [] resource_type = "Order" -> OrderColumns
      [] resource_type = "Product" -> ProductColumns
      [] OTHER -> {}

----------------------------------------------------------------------------
(* pyotp, as used by app/auth/routes.py: the code of a secret at a time,    *)
(* and TOTP(secret).verify(code).  TOTP(None).verify raises.               *)

totp_at(secret, t) == <<secret[1], t>>

(* Mutant: any code verifies *)
totp_verify_any(secret, code, t) == TRUE

totp_verify(secret, code, t) == code = totp_at(secret, t)

Codes == {<<s, now>> : s \in Secrets} \cup {<<"000000", now>>}

----------------------------------------------------------------------------
(* The Flask session.  Keys that are absent hold 0 (ids), "" (ip) or None.  *)
(* login_id is Flask-Login's "_user_id".                                    *)

EmptySession ==
    [login_id |-> 0, user_id |-> 0, ip_address |-> "", login_time |-> None,
     last_activity |-> None, mfa_user_id |-> 0, mfa_secret_setup |-> None]

isoformat(t) == <<"iso", t>>

(* datetime.fromisoformat raises ValueError / TypeError on anything that is  *)
(* not an ISO timestamp                                                     *)
ValueError(s) == ~(Len(s) = 2 /\ s[1] = "iso")

fromisoformat(s) == s[2]

(* app/session_security.py *)

(* Mutant: the record is not bound to the user *)
init_session_security_unbound(sess, user_id, ip_address, t_login, t_activity) ==
    [sess EXCEPT !.ip_address = ip_address,
                 !.login_time = isoformat(t_login),
                 !.last_activity = isoformat(t_activity)]

(* The two timestamps are two successive readings of the clock: t_login    *)
(* for login_time, t_activity for last_activity.                           *)
init_session_security(sess, user_id, ip_address, t_login, t_activity) ==
    [sess EXCEPT !.user_id = user_id,
                 !.ip_address = ip_address,
                 !.login_time = isoformat(t_login),
                 !.last_activity = isoformat(t_activity)]

(* Mutant: every address passes *)
validate_ip_address_any(sess, remote_addr) == TRUE

validate_ip_address(sess, remote_addr) ==
    sess.ip_address = remote_addr

(* Mutant: both timeouts are exclusive bounds *)
expiry_reason_exclusive(sess, t) ==
    LET last_activity_str == sess.last_activity
        login_time_str == sess.login_time
    IN  IF last_activity_str = None \/ login_time_str = None THEN "missing"
        ELSE IF ValueError(last_activity_str) \/ ValueError(login_time_str)
             THEN "unparsable"
        ELSE IF t - fromisoformat(last_activity_str) >= InactivityTimeout
             THEN "inactivity"
        ELSE IF t - fromisoformat(login_time_str) >= AbsoluteTimeout
             THEN "absolute"
        ELSE "no"

(* is_session_expired, with the line it logs *)
expiry_reason(sess, t) ==
    LET last_activity_str == sess.last_activity
        login_time_str == sess.login_time
    IN  IF last_activity_str = None \/ login_time_str = None THEN "missing"
        ELSE IF ValueError(last_activity_str) \/ ValueError(login_time_str)
             THEN "unparsable"
        ELSE IF t - fromisoformat(last_activity_str) > InactivityTimeout
             THEN "inactivity"
        ELSE IF t - fromisoformat(login_time_str) > AbsoluteTimeout
             THEN "absolute"
        ELSE "no"

(* Mutant: the inactivity timeout is not checked *)
is_session_expired_absolute_only(sess, t) ==
    expiry_reason(sess, t) \in {"missing", "unparsable", "absolute"}

(* Mutant: the absolute timeout is not checked *)
is_session_expired_inactivity_only(sess, t) ==
    expiry_reason(sess, t) \in {"missing", "unparsable", "inactivity"}

is_session_expired(sess, t) == expiry_reason(sess, t) # "no"

(* validate_session: [ok, session, log] *)
validate_session(authenticated, sess, remote_addr, t) ==
    IF ~authenticated THEN [ok |-> TRUE, session |-> sess, log |-> "none"]
    ELSE IF sess.ip_address = "" \/ sess.last_activity = None
         THEN [ok |-> FALSE, session |-> sess, log |-> "none"]
    ELSE IF ~validate_ip_address(sess, remote_addr)
         THEN [ok |-> FALSE, session |-> sess, log |-> "ip_mismatch"]
    ELSE IF is_session_expired(sess, t)
         THEN [ok |-> FALSE, session |-> sess,
               log |-> IF expiry_reason(sess, t) \in {"inactivity", "absolute"}
                       THEN expiry_reason(sess, t) ELSE "none"]
    ELSE [ok |-> TRUE,
          session |-> [sess EXCEPT !.last_activity = isoformat(t)],
          log |-> "none"]

(* Mutant: the bound IP is left in the session *)
clear_session_security_keeps_ip(sess) ==
    [sess EXCEPT !.user_id = 0,
                 !.login_time = None,
                 !.last_activity = None,
                 !.mfa_user_id = 0,
                 !.mfa_secret_setup = None]

clear_session_security(sess) ==
    [sess EXCEPT !.user_id = 0,
                 !.ip_address = "",
                 !.login_time = None,
                 !.last_activity = None,
                 !.mfa_user_id = 0,
                 !.mfa_secret_setup = None]

----------------------------------------------------------------------------
(* Flask-Login, as called by the routes *)

(* login_user refuses an account that is not active (and returns False) *)
login_user(sess, user_id, user) ==
    IF user.is_active THEN [sess EXCEPT !.login_id = user_id] ELSE sess

(* Mutant: the login stays in the session *)
logout_user_noop(sess) == sess

logout_user(sess) == [sess EXCEPT !.login_id = 0]

(* current_user: the user named by the session, else by the remember-me     *)
(* cookie (which is then copied into the session); 0 is the anonymous user. *)
load_user(sess, rem, db) ==
    IF sess.login_id \in DOMAIN db
    THEN [session |-> sess, user |-> sess.login_id]
    ELSE IF rem # 0
         THEN [session |-> [sess EXCEPT !.login_id = rem],
               user |-> IF rem \in DOMAIN db THEN rem ELSE 0]
         ELSE [session |-> sess, user |-> 0]

(* app/__init__.py: the before_request hook validate_session_security.      *)
(* [session, remember, user, rejected, log]                                 *)
validate_session_security(sess, rem, db, remote_addr, t) ==
    LET l == load_user(sess, rem, db)
        v == validate_session(l.user # 0, l.session, remote_addr, t)
    IN  IF l.user # 0 /\ ~v.ok
        THEN [session |-> clear_session_security(logout_user(v.session)),
              remember |-> 0, user |-> 0, rejected |-> TRUE, log |-> v.log]
        ELSE [session |-> v.session, remember |-> rem, user |-> l.user,
              rejected |-> FALSE, log |-> v.log]

----------------------------------------------------------------------------
(* app/audit.py *)

(* The request context of a write: the user Flask-Login resolved (0 when  *)
(* nobody is authenticated) and the remote address; NoRequest when the     *)
(* code runs outside any request (manage.py, an app context).              *)
RequestContext(user, remote_addr) ==
    [request |-> TRUE, user |-> user, remote_addr |-> remote_addr]

NoRequest == [request |-> FALSE, user |-> 0, remote_addr |-> ""]

(* Mutant: the actor is never resolved *)
get_current_user_id_none(ctx) == 0

get_current_user_id(ctx) ==
    IF ctx.request /\ ctx.user # 0 THEN ctx.user ELSE 0

get_ip_address(ctx) ==
    IF ctx.request THEN ctx.remote_addr ELSE "system"

(* The connection handed to a listener: "open" executes the insert,       *)
(* "failing" raises on execute, "absent" is connection=None.               *)
Connections == {"open", "failing", "absent"}

(* The mapped classes of app/models.py and those given to                  *)
(* register_audit_listeners (app/__init__.py)                              *)
Models == {"User", "Category", "Product", "CartItem", "Order", "OrderItem", "AuditLog"}
AuditedModels == {"User", "Order", "Product"}

(* Mutant: the recorder has no guard for its own table *)
create_audit_log_unguarded(connection, log, action, resource_type, id, details, ctx) ==
    IF connection = "open"
    THEN Append(log, [user_id |-> get_current_user_id(ctx),
                      action |-> action,
                      resource_type |-> resource_type,
                      resource_id |-> <<"str", id>>,
                      details |-> details,
                      ip_address |-> get_ip_address(ctx)])
    ELSE log

(* Mutant: the failure of the insert is not caught, the flush is undone *)
create_audit_log_raising(connection, log, action, resource_type, id, details, ctx) ==
    IF connection = "open"
    THEN Append(log, [user_id |-> get_current_user_id(ctx),
                      action |-> action,
                      resource_type |-> resource_type,
                      resource_id |-> <<"str", id>>,
                      details |-> details,
                      ip_address |-> get_ip_address(ctx)])
    ELSE <<"raised">>

(* A row of audit_logs, without its id and its timestamp column.  The      *)
(* result is the table after the call: unchanged when the target is an     *)
(* AuditLog, when no connection is given and when the insert raises (the   *)
(* exception is caught and printed).                                       *)
create_audit_log(connection, log, action, resource_type, id, details, ctx) ==
    IF resource_type = "AuditLog" THEN log
    ELSE IF connection = "open"
         THEN Append(log, [user_id |-> get_current_user_id(ctx),
                           action |-> action,
                           resource_type |-> resource_type,
                           resource_id |-> <<"str", id>>,
                           details |-> details,
                           ip_address |-> get_ip_address(ctx)])
         ELSE log

(* Mutant: an INSERT is not logged *)
after_insert_listener_silent(connection, log, resource_type, id, entity, ctx) == log

(* after_insert_listener: every column of the in-memory entity *)
after_insert_listener(connection, log, resource_type, id, entity, ctx) ==
    create_audit_log(connection, log, "INSERT", resource_type, id,
                     [c \in column_attrs(resource_type) |-> entity[c]], ctx)

(* Mutant: an UPDATE row lists every column *)
after_update_listener_snapshot(connection, log, resource_type, id, old, new, ctx) ==
    create_audit_log(connection, log, "UPDATE", resource_type, id,
                     [c \in column_attrs(resource_type) |->
                        [old |-> old[c], new |-> new[c]]], ctx)

(* Mutant: an UPDATE row is written whether or not a column changed *)
after_update_listener_always(connection, log, resource_type, id, old, new, ctx) ==
    create_audit_log(connection, log, "UPDATE", resource_type, id,
                     [c \in {d \in column_attrs(resource_type) : old[d] # new[d]} |->
                        [old |-> old[c], new |-> new[c]]], ctx)

(* after_update_listener: the columns whose in-memory value changed *)
after_update_listener(connection, log, resource_type, id, old, new, ctx) ==
    LET changed == {c \in column_attrs(resource_type) : old[c] # new[c]}
        changes == [c \in changed |-> [old |-> old[c], new |-> new[c]]]
    IN  IF changed # {}
        THEN create_audit_log(connection, log, "UPDATE", resource_type, id, changes, ctx)
        ELSE log

(* Mutant: a DELETE is not logged *)
after_delete_listener_silent(connection, log, resource_type, id, entity, ctx) == log

(* after_delete_listener: every column of the in-memory entity *)
after_delete_listener(connection, log, resource_type, id, entity, ctx) ==
    create_audit_log(connection, log, "DELETE", resource_type, id,
                     [c \in column_attrs(resource_type) |-> entity[c]], ctx)

----------------------------------------------------------------------------
(* Responses *)

Response(op, status, log) == [op |-> op, status |-> status, log |-> log]

(* The hook rejected the request: forced logout, the flash 'Your session    *)
(* has expired or is invalid' and a redirect to auth.login                  *)
Rejected(op, h) ==
    /\ session' = h.session
    /\ remember' = h.remember
    /\ resp' = Response(op, "session_invalid", h.log)
    /\ UNCHANGED <<now, users, orders, products, cart_items, order_items, checkouts, audit>>

(* The handler answered without writing to the database *)
Answer(op, h, sess, rem, status) ==
    /\ session' = sess
    /\ remember' = rem
    /\ resp' = Response(op, status, h.log)
    /\ UNCHANGED <<now, users, orders, products, cart_items, order_items, checkouts, audit>>

(* The handler completed a login; the clock stands at t when it returns *)
AnswerAt(op, h, sess, rem, status, t) ==
    /\ session' = sess
    /\ remember' = rem
    /\ resp' = Response(op, status, h.log)
    /\ now' = t
    /\ UNCHANGED <<users, orders, products, cart_items, order_items, checkouts, audit>>

Init ==
    /\ now = 0
    /\ users = <<>>
    /\ orders = <<>>
    /\ products = <<>>
    /\ cart_items = <<>>
    /\ order_items = <<>>
    /\ checkouts = {}
    /\ audit = <<>>
    /\ session = EmptySession
    /\ remember = 0
    /\ resp = Response("none", "none", "none")

(* Time passes *)
Tick(d, bound) ==
    /\ now + d <= bound
    /\ now' = now + d
    /\ UNCHANGED <<users, orders, products, cart_items, order_items, checkouts, audit, session, remember, resp>>

(* The session cookie expires or is discarded by the browser; the           *)
(* remember-me cookie has its own, longer lifetime.                         *)
DropSessionCookie ==
    /\ session # EmptySession
    /\ session' = EmptySession
    /\ UNCHANGED <<now, users, orders, products, cart_items, order_items, checkouts, audit, remember, resp>>

(* A request for a static file: the hook returns before looking at the user *)
StaticRequest ==
    /\ resp' = Response("static", "ok", "none")
    /\ UNCHANGED <<now, users, orders, products, cart_items, order_items, checkouts, audit, session, remember>>

(* Any other page: a public one, or one behind @login_required *)
PageRequest(ip, login_required) ==
    LET h == validate_session_security(session, remember, users, ip, now)
    IN  IF h.rejected THEN Rejected("page", h)
        ELSE IF login_required /\ h.user = 0
             THEN Answer("page", h, h.session, h.remember, "login_required")
        ELSE Answer("page", h, h.session, h.remember, "ok")

(* The primary key of a new row: SQLite hands out the highest id plus one *)
NextId(table) ==
    IF DOMAIN table = {} THEN 1
    ELSE (CHOOSE i \in DOMAIN table : \A j \in DOMAIN table : j <= i) + 1

(* manage.py: a new User(...) before it is flushed; the column defaults    *)
(* (role, is_active, mfa_enabled) are those of app/models.py.               *)
NewUser(password, role, phone, address) ==
    [password_hash |-> generate_password_hash(password),
     role |-> role,
     is_active |-> TRUE,
     phone |-> phone,
     address |-> address,
     mfa_secret |-> None,
     mfa_enabled |-> FALSE]

(* SQLAlchemy's flush of an entity: an INSERT or UPDATE writes the changed  *)
(* columns, protected ones through process_bind_param.                      *)
Persist(nonce, entity) ==
    [c \in UserColumns |->
        IF c \in ProtectedColumns THEN process_bind_param(nonce, entity[c])
        ELSE entity[c]]

Flush(nonce, stored, old, new) ==
    [c \in UserColumns |->
        IF old[c] = new[c] THEN stored[c]
        ELSE IF c \in ProtectedColumns THEN process_bind_param(nonce, new[c])
        ELSE new[c]]

(* The handler changed the current user's entity and committed *)
CommitUser(op, h, sess, new, status, ip) ==
    LET id == h.user
        old == LoadEntity(users[id])
    IN  \E nonce \in Nonces :
          /\ users' = [users EXCEPT ![id] = Flush(nonce, users[id], old, new)]
          /\ audit' = after_update_listener("open", audit, "User", id, old, new,
                                            RequestContext(h.user, ip))
          /\ session' = sess
          /\ remember' = h.remember
          /\ resp' = Response(op, status, h.log)
          /\ UNCHANGED <<now, orders, products, cart_items, order_items, checkouts>>

(* manage.py: seed, run from the command line (no request context: the     *)
(* audit rows name no actor and the origin 'system').  It creates the      *)
(* admin and the test customer when the table has neither.                 *)
SeedAdmin == NewUser("admin123", "admin", None, None)

SeedCustomer ==
    NewUser("customer123", "customer", None, <<"123 Main St, City, State 12345">>)

SeedUsers(nonce) ==
    (1 :> Persist(nonce, SeedAdmin)) @@ (2 :> Persist(nonce, SeedCustomer))

SeedAudit(log) ==
    after_insert_listener("open",
        after_insert_listener("open", log, "User", 1, SeedAdmin, NoRequest),
        "User", 2, SeedCustomer, NoRequest)

seed ==
    \E nonce \in Nonces :
      /\ DOMAIN users = {}
      /\ Len(audit) + 2 <= MaxAudit
      /\ users' = SeedUsers(nonce)
      /\ audit' = SeedAudit(audit)
      /\ UNCHANGED <<now, orders, products, cart_items, order_items, checkouts, session, remember, resp>>

(* Mutant: the password step never takes the MFA flow *)
mfa_flow_never(user) == FALSE

(* Mutant: the password step always takes the MFA flow *)
mfa_flow_always(user) == TRUE

(* auth/routes.py, login: the account takes the MFA flow *)
mfa_flow(user) == user.mfa_enabled

(* auth/routes.py: login (POST of a valid form); u is the account of the    *)
(* submitted e-mail, an u that is not registered is an unknown e-mail; d is *)
(* the time that passes between the two clock readings of a login.          *)
login(ip, u, password, remember_me, d) ==
    LET h == validate_session_security(session, remember, users, ip, now)
    IN  IF h.rejected THEN Rejected("login", h)
        ELSE IF h.user # 0
             THEN Answer("login", h, h.session, h.remember, "redirect_index")
        ELSE IF u \in DOMAIN users /\ check_password(users[u], password)
             THEN LET user == LoadEntity(users[u])
                  IN  IF ~user.is_active
                      THEN Answer("login", h, h.session, h.remember, "deactivated")
                      ELSE IF mfa_flow(user)
                      THEN Answer("login", h, [h.session EXCEPT !.mfa_user_id = u],
                                  h.remember, "redirect_verify_2fa")
                      ELSE AnswerAt("login", h,
                                    init_session_security(login_user(h.session, u, user),
                                                          u, ip, now, now + d),
                                    IF remember_me THEN u ELSE h.remember,
                                    "redirect_back", now + d)
        ELSE Answer("login", h, h.session, h.remember, "invalid_credentials")

(* auth/routes.py: logout *)
logout(ip) ==
    LET h == validate_session_security(session, remember, users, ip, now)
    IN  IF h.rejected THEN Rejected("logout", h)
        ELSE IF h.user = 0
             THEN Answer("logout", h, h.session, h.remember, "login_required")
        ELSE Answer("logout", h, clear_session_security(logout_user(h.session)),
                    0, "redirect_index")

(* Mutant: no account counts as enrolled *)
already_enabled_never(user) == FALSE

(* auth/routes.py, enable_2fa: the account already has MFA enabled *)
already_enabled(user) == user.mfa_enabled

(* auth/routes.py: enable_2fa, GET *)
enable_2fa_get(ip, secret) ==
    LET h == validate_session_security(session, remember, users, ip, now)
    IN  IF h.rejected THEN Rejected("enable_2fa_get", h)
        ELSE IF h.user = 0
             THEN Answer("enable_2fa_get", h, h.session, h.remember, "login_required")
        ELSE IF already_enabled(LoadEntity(users[h.user]))
             THEN Answer("enable_2fa_get", h, h.session, h.remember, "already_enabled")
        ELSE Answer("enable_2fa_get", h,
                    [h.session EXCEPT !.mfa_secret_setup = <<secret>>],
                    h.remember, "ok")

(* auth/routes.py: enable_2fa, POST of a code *)
enable_2fa_post(ip, code) ==
    LET h == validate_session_security(session, remember, users, ip, now)
    IN  IF h.rejected THEN Rejected("enable_2fa_post", h)
        ELSE IF h.user = 0
             THEN Answer("enable_2fa_post", h, h.session, h.remember, "login_required")
        ELSE IF already_enabled(LoadEntity(users[h.user]))
             THEN Answer("enable_2fa_post", h, h.session, h.remember, "already_enabled")
        ELSE LET secret == h.session.mfa_secret_setup
                 current_user == LoadEntity(users[h.user])
             IN  IF secret = None
                 THEN Answer("enable_2fa_post", h, h.session, h.remember,
                             "redirect_enable_2fa")
                 ELSE IF totp_verify(secret, code, now)
                 THEN CommitUser("enable_2fa_post", h,
                                 [h.session EXCEPT !.mfa_secret_setup = None],
                                 [current_user EXCEPT !.mfa_secret = secret,
                                                      !.mfa_enabled = TRUE],
                                 "redirect_profile", ip)
                 ELSE Answer("enable_2fa_post", h, h.session, h.remember,
                             "invalid_code")

(* auth/routes.py: verify_2fa_login, POST of a code; d as in login *)
verify_2fa_login(ip, code, d) ==
    LET h == validate_session_security(session, remember, users, ip, now)
    IN  IF h.rejected THEN Rejected("verify_2fa_login", h)
        ELSE IF h.user # 0
             THEN Answer("verify_2fa_login", h, h.session, h.remember, "redirect_index")
        ELSE LET user_id == h.session.mfa_user_id
             IN  IF user_id = 0 \/ user_id \notin DOMAIN users
                 THEN Answer("verify_2fa_login", h, h.session, h.remember,
                             "redirect_login")
                 ELSE LET user == LoadEntity(users[user_id])
                      IN  IF user.mfa_secret = None
                          THEN Answer("verify_2fa_login", h, h.session, h.remember,
                                      "error_500")
                          ELSE IF totp_verify(user.mfa_secret, code, now)
                          THEN AnswerAt("verify_2fa_login", h,
                                 [init_session_security(
                                      login_user(h.session, user_id, user),
                                      user_id, ip, now, now + d)
                                    EXCEPT !.mfa_user_id = 0],
                                 h.remember, "redirect_back", now + d)
                          ELSE Answer("verify_2fa_login", h, h.session, h.remember,
                                      "invalid_code")

(* auth/routes.py: disable_2fa *)
disable_2fa(ip) ==
    LET h == validate_session_security(session, remember, users, ip, now)
    IN  IF h.rejected THEN Rejected("disable_2fa", h)
        ELSE IF h.user = 0
             THEN Answer("disable_2fa", h, h.session, h.remember, "login_required")
        ELSE CommitUser("disable_2fa", h, h.session,
                        [LoadEntity(users[h.user]) EXCEPT !.mfa_enabled = FALSE,
                                                          !.mfa_secret = None],
                        "redirect_profile", ip)

(* Mutant: the profile form also clears the MFA secret *)
profile_fields_clearing(user, phone, address) ==
    [user EXCEPT !.phone = phone, !.address = address, !.mfa_secret = None]

(* auth/routes.py, profile: the assignments from the form (username,       *)
(* e-mail and names are columns the model leaves out)                      *)
profile_fields(user, phone, address) ==
    [user EXCEPT !.phone = phone, !.address = address]

(* auth/routes.py: profile (POST of a valid form) *)
profile(ip, phone, address) ==
    LET h == validate_session_security(session, remember, users, ip, now)
    IN  IF h.rejected THEN Rejected("profile", h)
        ELSE IF h.user = 0
             THEN Answer("profile", h, h.session, h.remember, "login_required")
        ELSE CommitUser("profile", h, h.session,
                        profile_fields(LoadEntity(users[h.user]), phone, address),
                        "redirect_profile", ip)

(* auth/routes.py: change_password (POST of a valid form) *)
change_password(ip, old_password, password) ==
    LET h == validate_session_security(session, remember, users, ip, now)
    IN  IF h.rejected THEN Rejected("change_password", h)
        ELSE IF h.user = 0
             THEN Answer("change_password", h, h.session, h.remember, "login_required")
        ELSE IF ~check_password(users[h.user], old_password)
             THEN Answer("change_password", h, h.session, h.remember,
                         "redirect_change_password")
        ELSE CommitUser("change_password", h, h.session,
                        [LoadEntity(users[h.user]) EXCEPT
                            !.password_hash = generate_password_hash(password)],
                        "redirect_profile", ip)

(* The clock of the model advances by the inactivity timeout *)
Steps == {InactivityTimeout}

(* A request from ip to a route behind the before_request hook *)
Request(ip) ==
    \/ \E lr \in BOOLEAN : PageRequest(ip, lr)
    \/ \E u \in Uids, pw \in Passwords, rm \in BOOLEAN : login(ip, u, pw, rm, 0)
    \/ logout(ip)
    \/ \E s \in Secrets : enable_2fa_get(ip, s)
    \/ \E code \in Codes : enable_2fa_post(ip, code)
    \/ \E code \in Codes : verify_2fa_login(ip, code, 0)
    \/ disable_2fa(ip)

Next ==
    \/ seed
    \/ \E d \in Steps : Tick(d, MaxNow)
    \/ DropSessionCookie
    \/ StaticRequest
    \/ \E ip \in IPs : Request(ip) /\ Len(audit') <= MaxAudit

Spec == Init /\ [][Next]_vars

(* A whole day of one account on one address: the clock runs past the      *)
(* absolute timeout.                                                        *)
MaxDay == AbsoluteTimeout + InactivityTimeout

RequestDay(ip) ==
    \/ PageRequest(ip, TRUE)
    \/ login(ip, 1, "admin123", FALSE, 0)
    \/ logout(ip)

DayIP == "10.0.0.1"

NextDay ==
    \/ seed
    \/ Tick(InactivityTimeout, MaxDay)
    \/ RequestDay(DayIP)

SpecDay == Init /\ [][NextDay]_vars

(* The session cookie as an input of validation: an authenticated session  *)
(* of the admin whose security record is whole, partial or absent, or      *)
(* holds a timestamp that is no ISO string.  (The test suite builds such   *)
(* sessions with session_transaction; a session authenticated from the     *)
(* remember-me cookie has no record at all.)                               *)
Timestamps == {None, isoformat(0), <<"yesterday">>}

Records ==
    {[EmptySession EXCEPT !.login_id = 1,
                          !.user_id = user_id,
                          !.ip_address = ip_address,
                          !.login_time = login_time,
                          !.last_activity = last_activity] :
        user_id \in {0, 1}, ip_address \in {"", DayIP},
        login_time \in Timestamps, last_activity \in Timestamps}

InitRecord ==
    /\ now = 0
    /\ \E nonce \in Nonces : users = SeedUsers(nonce)
    /\ orders = <<>>
    /\ products = <<>>
    /\ cart_items = <<>>
    /\ order_items = <<>>
    /\ checkouts = {}
    /\ audit = SeedAudit(<<>>)
    /\ session \in Records
    /\ remember = 0
    /\ resp = Response("none", "none", "none")

NextRecord ==
    \/ Tick(InactivityTimeout, MaxNow)
    \/ \E ip \in IPs : RequestDay(ip)

SpecRecord == InitRecord /\ [][NextRecord]_vars

(* Enrollment, verification and disabling of MFA with two candidate        *)
(* secrets, on a clock that may advance by one between the two timestamps  *)
(* of a login.                                                             *)
MaxEnrollAudit == 4
MaxEnrollNow == 1

EnrollSecrets == {"S1", "S2"}
EnrollCodes == {<<s, now>> : s \in EnrollSecrets} \cup {<<"000000", now>>}
Elapsed == {0, 1}

RequestEnroll(ip) ==
    \/ \E u \in Uids, pw \in Passwords, d \in Elapsed : login(ip, u, pw, FALSE, d)
    \/ logout(ip)
    \/ \E s \in EnrollSecrets : enable_2fa_get(ip, s)
    \/ \E code \in EnrollCodes : enable_2fa_post(ip, code)
    \/ \E code \in EnrollCodes, d \in Elapsed : verify_2fa_login(ip, code, d)
    \/ disable_2fa(ip)

NextEnroll ==
    \/ seed
    \/ /\ RequestEnroll(DayIP)
       /\ Len(audit') <= MaxEnrollAudit
       /\ now' <= MaxEnrollNow

SpecEnroll == Init /\ [][NextEnroll]_vars

(* Logins from two addresses, by password and by TOTP code, on a clock     *)
(* that may advance by one between the two timestamps of a login.          *)
RequestLogin(ip) ==
    \/ \E u \in Uids, pw \in Passwords, d \in Elapsed : login(ip, u, pw, FALSE, d)
    \/ logout(ip)
    \/ \E s \in Secrets : enable_2fa_get(ip, s)
    \/ \E code \in Codes : enable_2fa_post(ip, code)
    \/ \E code \in Codes, d \in Elapsed : verify_2fa_login(ip, code, d)

NextLogin ==
    \/ seed
    \/ \E ip \in IPs :
          /\ RequestLogin(ip)
          /\ Len(audit') <= MaxAudit
          /\ now' <= MaxEnrollNow

SpecLogin == Init /\ [][NextLogin]_vars

----------------------------------------------------------------------------
(* The cipher and the encrypted columns on their own: rows written through *)
(* the model layer (register), rows written around it (raw SQL, as the     *)
(* legacy rows of tests/test_encryption.py), reloads, and direct calls of  *)
(* encrypt and decrypt.                                                    *)

(* Non-null strings a form can submit: the empty string, a phone number,   *)
(* and a string that is itself a token                                     *)
Strings == {<<"">>, <<"555-0100">>, encrypt("n0", <<"555-0100">>)}

(* Strings found in a column or handed to decrypt: legacy plaintext, a     *)
(* token, the same token edited, and a token made under another key        *)
StoredStrings ==
    {<<"JBSWY3DPEHPK3PXP">>, encrypt("n1", <<"555-0100">>),
     <<"gcm", "k2", "n1", <<"555-0100">>>>}
    \cup {<<"gcm", ENCRYPTION_KEY, "n1", <<"555-0100">>, e>> : e \in Edits}

(* The string is a token made by encrypt under the key of the cipher *)
IsToken(value) ==
    /\ Len(value) = 4
    /\ value[1] = "gcm"
    /\ value[2] = ENCRYPTION_KEY

(* auth/routes.py: register (POST of a valid form for a new e-mail) *)
register(ip, phone, password) ==
    LET h == validate_session_security(session, remember, users, ip, now)
    IN  IF h.rejected THEN Rejected("register", h)
        ELSE IF h.user # 0
             THEN Answer("register", h, h.session, h.remember, "redirect_index")
        ELSE \E nonce \in Nonces :
               LET id == NextId(users)
                   user == NewUser(password, "customer", phone, None)
               IN  /\ id <= MaxUsers
                   /\ users' = users @@ (id :> Persist(nonce, user))
                   /\ audit' = after_insert_listener("open", audit, "User", id, user,
                                                    RequestContext(h.user, ip))
                   /\ session' = h.session
                   /\ remember' = h.remember
                   /\ resp' = Response("register", "redirect_login", h.log)
                   /\ UNCHANGED <<now, orders, products, cart_items, order_items, checkouts>>

(* A row written with raw SQL: the column holds the string as given, no    *)
(* mapper event fires                                                      *)
legacy_insert(mfa_secret) ==
    LET id == NextId(users)
        row == [password_hash |-> <<"hash">>,
                role |-> "customer",
                is_active |-> TRUE,
                phone |-> None,
                address |-> None,
                mfa_secret |-> mfa_secret,
                mfa_enabled |-> TRUE]
    IN  /\ id <= MaxUsers
        /\ users' = users @@ (id :> row)
        /\ resp' = Response("legacy_insert", "ok", "none")
        /\ UNCHANGED <<now, orders, products, cart_items, order_items, checkouts, audit, session, remember>>

(* User.query...first(): the response holds the id and the loaded entity *)
load(id) ==
    /\ id \in DOMAIN users
    /\ resp' = Response("load", id, LoadEntity(users[id]))
    /\ UNCHANGED <<now, users, orders, products, cart_items, order_items, checkouts, audit, session, remember>>

(* cipher.encrypt(raw_data): the response holds the argument and the       *)
(* returned value                                                          *)
cipher_encrypt(raw_data) ==
    /\ \E nonce \in Nonces : resp' = Response("encrypt", raw_data, encrypt(nonce, raw_data))
    /\ UNCHANGED <<now, users, orders, products, cart_items, order_items, checkouts, audit, session, remember>>

(* cipher.decrypt(enc_data) *)
cipher_decrypt(enc_data) ==
    /\ resp' = Response("decrypt", enc_data, decrypt(enc_data))
    /\ UNCHANGED <<now, users, orders, products, cart_items, order_items, checkouts, audit, session, remember>>

(* cipher = AESCipher(key) with ENCRYPTION_KEY = environ in the            *)
(* environment: the response holds the two texts and the outcome           *)
new_cipher(key, environ) ==
    /\ resp' = Response("AESCipher", [key |-> key, environ |-> environ],
                        AESCipher(key, environ))
    /\ UNCHANGED <<now, users, orders, products, cart_items, order_items, checkouts, audit, session, remember>>

(* cipher.encrypt(raw_data) called twice, then cipher.decrypt of the two   *)
(* tokens: the response holds the argument, the two tokens and the two     *)
(* decrypted values                                                        *)
encrypt_twice(raw_data) ==
    /\ \E nonce1 \in urandom({}) :
         \E nonce2 \in urandom({nonce1}) :
           LET token1 == encrypt(nonce1, raw_data)
               token2 == encrypt(nonce2, raw_data)
           IN  resp' = Response("encrypt_twice", raw_data,
                                <<token1, token2, decrypt(token1), decrypt(token2)>>)
    /\ UNCHANGED <<now, users, orders, products, cart_items, order_items, checkouts, audit, session, remember>>

(* The module cipher of app/models.py is built without argument; the       *)
(* tests build one with a key                                              *)
NextCipher ==
    \/ \E key \in {Unset, KeyText(43, 1, 0)}, environ \in KeyTexts :
          new_cipher(key, environ)
    \/ \E raw_data \in Strings \cup {None} : encrypt_twice(raw_data)

SpecCipher == Init /\ [][NextCipher]_vars

NextStore ==
    \/ \E phone \in Strings \cup {None} : register(DayIP, phone, "customer123")
    \/ \E mfa_secret \in StoredStrings : legacy_insert(mfa_secret)
    \/ \E id \in Uids : load(id)
    \/ \E raw_data \in Strings \cup {None} : cipher_encrypt(raw_data)
    \/ \E enc_data \in StoredStrings \cup Strings \cup {None} : cipher_decrypt(enc_data)

SpecStore == Init /\ [][NextStore]_vars

----------------------------------------------------------------------------
(* Orders: tests/test_admin_delete.py and the order routes of              *)
(* app/admin/routes.py.  A request carries the connection its flush hands  *)
(* to the listeners and the outcome of its COMMIT.                         *)

MaxAuditRows == 7
MaxUpdates == 1

OrderNumbers == {<<"ORD-123">>, <<"ORD-124">>}
Oids == 1 .. Cardinality(OrderNumbers)
Statuses == {"pending", "shipped"}

(* The faults of a request: the insert of the audit row raises, or the     *)
(* COMMIT fails                                                             *)
Faults == {"none", "audit", "commit"}
FlushConnection(fault) == IF fault = "audit" THEN "failing" ELSE "open"

(* The result of a listener that raised: the flush fails *)
Raised == <<"raised">>

(* An Order(...) before it is flushed, with the column defaults of          *)
(* app/models.py; updated_at counts the clock readings stored in it.        *)
NewOrder(user_id, order_number) ==
    [user_id |-> user_id,
     order_number |-> order_number,
     status |-> "pending",
     total_amount |-> 100,
     shipping_address |-> <<"123 Test St">>,
     payment_method |-> "cash_on_delivery",
     card_number |-> None,
     card_expiry |-> None,
     card_cvv |-> None,
     bank_account |-> None,
     notes |-> None,
     updated_at |-> 0]

PersistOrder(nonce, entity) ==
    [c \in OrderColumns |->
        IF c \in OrderProtectedColumns THEN process_bind_param(nonce, entity[c])
        ELSE entity[c]]

LoadOrder(row) ==
    [c \in OrderColumns |->
        IF c \in OrderProtectedColumns THEN process_result_value(row[c])
        ELSE row[c]]

(* The UPDATE of a flush: it is emitted when an attribute has a net        *)
(* change, writes the changed columns and the onupdate default of          *)
(* updated_at, a new reading of the clock.                                 *)
FlushUpdate(nonce, columns, protected, stored, old, new) ==
    IF \A c \in columns : old[c] = new[c] THEN stored
    ELSE [c \in columns |->
            IF c = "updated_at" THEN stored[c] + 1
            ELSE IF old[c] = new[c] THEN stored[c]
            ELSE IF c \in protected THEN process_bind_param(nonce, new[c])
            ELSE new[c]]

(* Mutant: the audit rows are written outside the transaction and stay    *)
(* when the COMMIT fails                                                   *)
db_session_commit_audit_apart(op, h, commit_ok, tx, status) ==
    /\ IF commit_ok /\ tx.audit # Raised
       THEN /\ users' = tx.users
            /\ orders' = tx.orders
            /\ products' = tx.products
            /\ cart_items' = tx.cart_items
            /\ order_items' = tx.order_items
            /\ audit' = tx.audit
            /\ resp' = Response(op, status, h.log)
       ELSE /\ UNCHANGED <<users, orders, products, cart_items, order_items>>
            /\ audit' = IF tx.audit # Raised THEN tx.audit ELSE audit
            /\ resp' = Response(op, "500", h.log)
    /\ session' = h.session
    /\ remember' = h.remember
    /\ UNCHANGED <<now, checkouts>>

(* db.session.commit(): the transaction of the request is committed, or    *)
(* it raises (a listener raised, or the COMMIT failed), the 500 handler    *)
(* rolls back and nothing of the request is persisted.                     *)
db_session_commit(op, h, commit_ok, tx, status) ==
    /\ IF commit_ok /\ tx.audit # Raised
       THEN /\ users' = tx.users
            /\ orders' = tx.orders
            /\ products' = tx.products
            /\ cart_items' = tx.cart_items
            /\ order_items' = tx.order_items
            /\ audit' = tx.audit
            /\ resp' = Response(op, status, h.log)
       ELSE /\ UNCHANGED <<users, orders, products, cart_items, order_items, audit>>
            /\ resp' = Response(op, "500", h.log)
    /\ session' = h.session
    /\ remember' = h.remember
    /\ UNCHANGED <<now, checkouts>>

(* admin_required: login_required, then abort(403) unless the user is an   *)
(* admin; "ok" lets the handler run.                                       *)
admin_required(h) ==
    IF h.user = 0 THEN "login_required"
    ELSE IF users[h.user].role # "admin" THEN "403"
    ELSE "ok"

(* tests/test_admin_delete.py: an order of a user, added and committed in  *)
(* an app context, outside any request                                     *)
create_order(user_id, order_number) ==
    \E nonce \in Nonces :
      LET id == NextId(orders)
          order == NewOrder(user_id, order_number)
      IN  /\ user_id \in DOMAIN users
          /\ id \in Oids
          /\ \A o \in DOMAIN orders : orders[o].order_number # order_number
          /\ orders' = orders @@ (id :> PersistOrder(nonce, order))
          /\ audit' = after_insert_listener("open", audit, "Order", id, order, NoRequest)
          /\ resp' = Response("create_order", id, "none")
          /\ UNCHANGED <<now, users, products, cart_items, order_items, checkouts, session, remember>>

(* The transaction of update_order_status: [users, orders, products, audit] *)
update_order_status_tx(nonce, ctx, order_id, status, connection) ==
    LET old == LoadOrder(orders[order_id])
        new == [old EXCEPT !.status = status]
    IN  [users |-> users,
         orders |-> [orders EXCEPT ![order_id] =
                        FlushUpdate(nonce, OrderColumns, OrderProtectedColumns,
                                    orders[order_id], old, new)],
         products |-> products,
         cart_items |-> cart_items,
         order_items |-> order_items,
         audit |-> after_update_listener(connection, audit, "Order", order_id,
                                         old, new, ctx)]

(* admin/routes.py: update_order_status (POST of a valid form) *)
update_order_status(ip, order_id, status, connection, commit_ok) ==
    LET h == validate_session_security(session, remember, users, ip, now)
    IN  IF h.rejected THEN Rejected("update_order_status", h)
        ELSE IF admin_required(h) # "ok"
             THEN Answer("update_order_status", h, h.session, h.remember, admin_required(h))
        ELSE IF order_id \notin DOMAIN orders
             THEN Answer("update_order_status", h, h.session, h.remember, "404")
        ELSE \E nonce \in Nonces :
               db_session_commit("update_order_status", h, commit_ok,
                   update_order_status_tx(nonce, RequestContext(h.user, ip),
                                          order_id, status, connection),
                   "redirect_order_detail")

(* The rows that stay when the ids of a set are deleted *)
Remaining(table, ids) == [id \in DOMAIN table \ ids |-> table[id]]

(* The unit of work deletes the orders of a set, lowest id first, each     *)
(* with its after_delete event                                             *)
RECURSIVE delete_orders(_, _, _, _)
delete_orders(connection, log, ids, ctx) ==
    IF ids = {} \/ log = Raised THEN log
    ELSE LET id == CHOOSE i \in ids : \A j \in ids : i <= j
         IN  delete_orders(connection,
                 after_delete_listener(connection, log, "Order", id,
                                       LoadOrder(orders[id]), ctx),
                 ids \ {id}, ctx)

(* Order.items, cascade='all, delete-orphan': the line items of orders *)
items_of(ids) == {i \in DOMAIN order_items : order_items[i].order_id \in ids}

(* The transaction of delete_order: the line items go with the order *)
delete_order_tx(ctx, order_id, connection) ==
    [users |-> users,
     orders |-> Remaining(orders, {order_id}),
     products |-> products,
     cart_items |-> cart_items,
     order_items |-> Remaining(order_items, items_of({order_id})),
     audit |-> delete_orders(connection, audit, {order_id}, ctx)]

(* admin/routes.py: delete_order *)
delete_order(ip, order_id, connection, commit_ok) ==
    LET h == validate_session_security(session, remember, users, ip, now)
    IN  IF h.rejected THEN Rejected("delete_order", h)
        ELSE IF admin_required(h) # "ok"
             THEN Answer("delete_order", h, h.session, h.remember, admin_required(h))
        ELSE IF order_id \notin DOMAIN orders
             THEN Answer("delete_order", h, h.session, h.remember, "404")
        ELSE db_session_commit("delete_order", h, commit_ok,
                 delete_order_tx(RequestContext(h.user, ip), order_id, connection),
                 "redirect_orders")

(* Mutant: the audit rows that name a deleted user as actor go with it *)
audit_logs_of_deleted_purged(log, user_id) ==
    SelectSeq(log, LAMBDA row : row.user_id # user_id)

(* AuditLog.user_id is a plain foreign key: no relationship, no cascade.   *)
(* The rows that name a deleted user stay as they are.                     *)
audit_logs_of_deleted(log, user_id) == log

(* User.orders, cascade='all, delete-orphan': the orders of a user *)
orders_of(user_id) == {o \in DOMAIN orders : orders[o].user_id = user_id}

(* Mutant: the cart items of a deleted user stay *)
cart_items_of_none(user_id) == {}

(* User.cart_items, cascade='all, delete-orphan': the cart items of a user *)
cart_items_of(user_id) ==
    {i \in DOMAIN cart_items : cart_items[i].user_id = user_id}

(* The transaction of delete_user: the orders of the user, their line      *)
(* items and the cart items of the user are deleted by cascade before the  *)
(* user                                                                     *)
delete_user_tx(ctx, user_id, connection) ==
    LET log == delete_orders(connection, audit_logs_of_deleted(audit, user_id),
                             orders_of(user_id), ctx)
    IN  [users |-> Remaining(users, {user_id}),
         orders |-> Remaining(orders, orders_of(user_id)),
         products |-> products,
         cart_items |-> Remaining(cart_items, cart_items_of(user_id)),
         order_items |-> Remaining(order_items, items_of(orders_of(user_id))),
         audit |-> IF log = Raised THEN Raised
                   ELSE after_delete_listener(connection, log, "User", user_id,
                                              LoadEntity(users[user_id]), ctx)]

(* admin/routes.py: delete_user *)
delete_user(ip, user_id, connection, commit_ok) ==
    LET h == validate_session_security(session, remember, users, ip, now)
    IN  IF h.rejected THEN Rejected("delete_user", h)
        ELSE IF admin_required(h) # "ok"
             THEN Answer("delete_user", h, h.session, h.remember, admin_required(h))
        ELSE IF user_id \notin DOMAIN users
             THEN Answer("delete_user", h, h.session, h.remember, "404")
        ELSE IF user_id = h.user
             THEN Answer("delete_user", h, h.session, h.remember, "redirect_users")
        ELSE db_session_commit("delete_user", h, commit_ok,
                 delete_user_tx(RequestContext(h.user, ip), user_id, connection),
                 "redirect_users")

(* No fault: every audit row is written and every COMMIT succeeds *)
RequestAudit(ip) ==
    \/ login(ip, 1, "admin123", FALSE, 0)
    \/ logout(ip)
    \/ register(ip, None, "customer123")
    \/ \E o \in Oids, status \in Statuses :
            update_order_status(ip, o, status, "open", TRUE)
    \/ \E o \in Oids : delete_order(ip, o, "open", TRUE)
    \/ \E u \in Uids : delete_user(ip, u, "open", TRUE)

NextAudit ==
    \/ seed
    \/ \E u \in Uids, n \in OrderNumbers :
          /\ u \in DOMAIN users
          /\ users[u].role = "customer"
          /\ create_order(u, n)
          /\ Len(audit') <= MaxAuditRows
    \/ /\ RequestAudit(DayIP)
       /\ Len(audit') <= MaxAuditRows

SpecAudit == Init /\ [][NextAudit]_vars

----------------------------------------------------------------------------
(* Products: the product routes of app/admin/routes.py, with faults *)

MaxProducts == 1
MaxProductRows == 5
MaxFaultRows == 4

Pids == 1 .. MaxProducts
ProductNames == {<<"Mug">>, <<"Cup">>}
Stocks == {5, 7}
Images == {None, <<"1_mug.png">>}

(* app.utils.slugify: the slug is a function of the name *)
slugify(name) == <<"slug", name[1]>>

(* A Product(...) as new_product builds it from a valid form *)
NewProduct(name, stock) ==
    [name |-> name,
     slug |-> slugify(name),
     description |-> <<"A sturdy mug for every day">>,
     price |-> 10,
     stock |-> stock,
     image |-> None,
     category_id |-> 1,
     is_active |-> TRUE,
     updated_at |-> 0]

(* products.slug is unique: the flush raises IntegrityError otherwise *)
slug_free(slug, except) ==
    \A p \in DOMAIN products \ except : products[p].slug # slug

(* The transaction of new_product: the flush inserts the product, then the *)
(* commit writes the image name returned by save_product_image (None when  *)
(* no file was uploaded or saved)                                           *)
new_product_tx(nonce, ctx, name, stock, filename, connection) ==
    LET id == NextId(products)
        product == NewProduct(name, stock)
        inserted == after_insert_listener(connection, audit, "Product", id, product, ctx)
        new == IF filename # None THEN [product EXCEPT !.image = filename] ELSE product
    IN  [users |-> users,
         orders |-> orders,
         products |-> products @@
             (id :> FlushUpdate(nonce, ProductColumns, {}, product, product, new)),
         cart_items |-> cart_items,
         order_items |-> order_items,
         audit |-> IF inserted = Raised THEN Raised
                   ELSE after_update_listener(connection, inserted, "Product", id,
                                              product, new, ctx)]

(* admin/routes.py: new_product (POST of a valid form) *)
new_product(ip, name, stock, filename, connection, commit_ok) ==
    LET h == validate_session_security(session, remember, users, ip, now)
    IN  IF h.rejected THEN Rejected("new_product", h)
        ELSE IF admin_required(h) # "ok"
             THEN Answer("new_product", h, h.session, h.remember, admin_required(h))
        ELSE \E nonce \in Nonces :
               /\ NextId(products) \in Pids
               /\ db_session_commit("new_product", h,
                      commit_ok /\ slug_free(slugify(name), {}),
                      new_product_tx(nonce, RequestContext(h.user, ip), name, stock,
                                     filename, connection),
                      "redirect_products")

(* The transaction of edit_product *)
edit_product_tx(nonce, ctx, product_id, name, stock, filename, connection) ==
    LET old == products[product_id]
        form == [old EXCEPT !.name = name,
                            !.slug = slugify(name),
                            !.description = <<"A sturdy mug for every day">>,
                            !.price = 10,
                            !.stock = stock,
                            !.category_id = 1,
                            !.is_active = TRUE]
        new == IF filename # None THEN [form EXCEPT !.image = filename] ELSE form
    IN  [users |-> users,
         orders |-> orders,
         products |-> [products EXCEPT ![product_id] =
                          FlushUpdate(nonce, ProductColumns, {}, old, old, new)],
         cart_items |-> cart_items,
         order_items |-> order_items,
         audit |-> after_update_listener(connection, audit, "Product", product_id,
                                         old, new, ctx)]

(* admin/routes.py: edit_product (POST of a valid form) *)
edit_product(ip, product_id, name, stock, filename, connection, commit_ok) ==
    LET h == validate_session_security(session, remember, users, ip, now)
    IN  IF h.rejected THEN Rejected("edit_product", h)
        ELSE IF admin_required(h) # "ok"
             THEN Answer("edit_product", h, h.session, h.remember, admin_required(h))
        ELSE IF product_id \notin DOMAIN products
             THEN Answer("edit_product", h, h.session, h.remember, "404")
        ELSE \E nonce \in Nonces :
               db_session_commit("edit_product", h,
                   commit_ok /\ slug_free(slugify(name), {product_id}),
                   edit_product_tx(nonce, RequestContext(h.user, ip), product_id,
                                   name, stock, filename, connection),
                   "redirect_products")

(* Product.order_items and Product.cart_items, cascade='all,               *)
(* delete-orphan': the line items and the cart items that name a product  *)
order_items_with(product_id) ==
    {i \in DOMAIN order_items : order_items[i].product_id = product_id}

cart_items_with(product_id) ==
    {i \in DOMAIN cart_items : cart_items[i].product_id = product_id}

(* The transaction of delete_product: the line items and the cart items    *)
(* that name the product are deleted by cascade                            *)
delete_product_tx(ctx, product_id, connection) ==
    [users |-> users,
     orders |-> orders,
     products |-> Remaining(products, {product_id}),
     cart_items |-> Remaining(cart_items, cart_items_with(product_id)),
     order_items |-> Remaining(order_items, order_items_with(product_id)),
     audit |-> after_delete_listener(connection, audit, "Product", product_id,
                                     products[product_id], ctx)]

(* admin/routes.py: delete_product *)
delete_product(ip, product_id, connection, commit_ok) ==
    LET h == validate_session_security(session, remember, users, ip, now)
    IN  IF h.rejected THEN Rejected("delete_product", h)
        ELSE IF admin_required(h) # "ok"
             THEN Answer("delete_product", h, h.session, h.remember, admin_required(h))
        ELSE IF product_id \notin DOMAIN products
             THEN Answer("delete_product", h, h.session, h.remember, "404")
        ELSE db_session_commit("delete_product", h, commit_ok,
                 delete_product_tx(RequestContext(h.user, ip), product_id, connection),
                 "redirect_products")

(* create_audit_log called by hand, outside a request, with a target of a  *)
(* mapped class: the call leaves the audit table it computes, the response *)
(* names the class and the connection                                      *)
record(resource_type, connection) ==
    /\ audit' = create_audit_log(connection, audit, "INSERT", resource_type,
                                 1, None, NoRequest)
    /\ resp' = Response("create_audit_log", resource_type, connection)
    /\ UNCHANGED <<now, users, orders, products, cart_items, order_items, checkouts, session, remember>>

(* No fault: every audit row is written and every COMMIT succeeds *)
RequestProduct(ip) ==
    \/ login(ip, 1, "admin123", FALSE, 0)
    \/ \E name \in ProductNames, stock \in Stocks, filename \in Images :
          new_product(ip, name, stock, filename, "open", TRUE)
    \/ \E p \in Pids, name \in ProductNames, stock \in Stocks, filename \in Images :
          edit_product(ip, p, name, stock, filename, "open", TRUE)
    \/ \E p \in Pids : delete_product(ip, p, "open", TRUE)

NextProduct ==
    \/ seed
    \/ /\ RequestProduct(DayIP)
       /\ Len(audit') <= MaxProductRows

SpecProduct == Init /\ [][NextProduct]_vars

(* The same routes under faults: the insert of the audit row raises, or    *)
(* the COMMIT fails                                                         *)
RequestFault(ip) ==
    \/ login(ip, 1, "admin123", FALSE, 0)
    \/ \E filename \in Images, fault \in Faults :
          new_product(ip, <<"Mug">>, 5, filename, FlushConnection(fault), fault # "commit")
    \/ \E p \in Pids, stock \in Stocks, fault \in Faults :
          edit_product(ip, p, <<"Mug">>, stock, None, FlushConnection(fault), fault # "commit")
    \/ \E p \in Pids, fault \in Faults :
          delete_product(ip, p, FlushConnection(fault), fault # "commit")

NextFault ==
    \/ seed
    \/ /\ RequestFault(DayIP)
       /\ Len(audit') <= MaxFaultRows
       /\ \A p \in DOMAIN products' : products'[p].updated_at <= MaxUpdates

SpecFault == Init /\ [][NextFault]_vars

(* Accounts that write audit rows themselves and are deleted afterwards *)
RequestActor(ip) ==
    \/ \E u \in Uids : u \in DOMAIN users /\ login(ip, u, users[u].password_hash[2], FALSE, 0)
    \/ logout(ip)
    \/ register(ip, None, "customer123")
    \/ \E s \in Secrets : enable_2fa_get(ip, s)
    \/ \E code \in Codes : enable_2fa_post(ip, code)
    \/ \E u \in Uids : delete_user(ip, u, "open", TRUE)

NextActor ==
    \/ seed
    \/ /\ RequestActor(DayIP)
       /\ Len(audit') <= MaxEnrollAudit

SpecActor == Init /\ [][NextActor]_vars

(* The recorder called by hand between the requests of one address: the    *)
(* targets are the classes the listeners are registered for and AuditLog   *)
MaxRecorderRows == 3

NextRecorder ==
    \/ seed
    \/ /\ \E resource_type \in AuditedModels \cup {"AuditLog"},
             connection \in Connections :
             record(resource_type, connection)
       /\ Len(audit') <= MaxRecorderRows
    \/ /\ RequestActor(DayIP)
       /\ Len(audit') <= MaxRecorderRows

SpecRecorder == Init /\ [][NextRecorder]_vars

----------------------------------------------------------------------------
(* The shop: the cart, checkout and order routes of app/main/routes.py and *)
(* the order endpoint of app/api/routes.py.  Prices and amounts are in     *)
(* cents.                                                                   *)

(* Mutant: the routes are open to everybody *)
login_required_open(h) == "ok"

(* @login_required: Flask-Login answers an anonymous request with the      *)
(* redirect to login_manager.login_view                                    *)
login_required(h) == IF h.user = 0 THEN "login_required" ELSE "ok"

(* The tables as a request finds them *)
Tables ==
    [users |-> users, orders |-> orders, products |-> products,
     cart_items |-> cart_items, order_items |-> order_items, audit |-> audit]

(* The ids of a set, lowest first *)
RECURSIVE Ascending(_)
Ascending(ids) ==
    IF ids = {} THEN <<>>
    ELSE LET id == CHOOSE i \in ids : \A j \in ids : i <= j
         IN  <<id>> \o Ascending(ids \ {id})

(* manage.py, seed: the first product of products_data, inserted from the  *)
(* command line when the table has no product of that name                 *)
SeedProduct ==
    [name |-> <<"Laptop Computer">>,
     slug |-> <<"laptop-computer">>,
     description |-> <<"High-performance laptop with 16GB RAM and 512GB SSD.">>,
     price |-> 99999,
     stock |-> 10,
     image |-> None,
     category_id |-> 1,
     is_active |-> TRUE,
     updated_at |-> 0]

seed_products ==
    /\ DOMAIN products = {}
    /\ products' = (1 :> SeedProduct)
    /\ audit' = after_insert_listener("open", audit, "Product", 1, SeedProduct, NoRequest)
    /\ UNCHANGED <<now, users, orders, cart_items, order_items, checkouts,
                   session, remember, resp>>

(* manage.py, seed: the second product of products_data *)
SeedMouse ==
    [name |-> <<"Wireless Mouse">>,
     slug |-> <<"wireless-mouse">>,
     description |-> <<"Ergonomic wireless mouse with long battery life and precise tracking.">>,
     price |-> 2999,
     stock |-> 50,
     image |-> None,
     category_id |-> 1,
     is_active |-> TRUE,
     updated_at |-> 0]

(* manage.py, seed: the first two products, flushed by one commit *)
seed_catalog ==
    /\ DOMAIN products = {}
    /\ products' = (1 :> SeedProduct) @@ (2 :> SeedMouse)
    /\ audit' = after_insert_listener("open",
                    after_insert_listener("open", audit, "Product", 1, SeedProduct,
                                          NoRequest),
                    "Product", 2, SeedMouse, NoRequest)
    /\ UNCHANGED <<now, users, orders, cart_items, order_items, checkouts,
                   session, remember, resp>>

(* Product.is_in_stock *)
is_in_stock(product) == product.stock > 0 /\ product.is_active

(* request.form.get('quantity', 1, type=int) of the cart forms *)
Quantities == {0, 1, 6, 11}

(* main/routes.py: add_to_cart *)
add_to_cart(ip, product_id, quantity) ==
    LET h == validate_session_security(session, remember, users, ip, now)
    IN  IF h.rejected THEN Rejected("add_to_cart", h)
        ELSE IF login_required(h) # "ok"
             THEN Answer("add_to_cart", h, h.session, h.remember, login_required(h))
        ELSE IF product_id \notin DOMAIN products
             THEN Answer("add_to_cart", h, h.session, h.remember, "404")
        ELSE LET product == products[product_id]
                 q == IF quantity < 1 THEN 1 ELSE quantity
                 mine == {i \in cart_items_of(h.user) :
                             cart_items[i].product_id = product_id}
             IN  IF ~is_in_stock(product) \/ q > product.stock
                 THEN Answer("add_to_cart", h, h.session, h.remember,
                             "redirect_product_detail")
                 ELSE IF mine # {}
                 THEN LET i == CHOOSE i \in mine : TRUE
                          new_quantity == cart_items[i].quantity + q
                      IN  IF new_quantity > product.stock
                          THEN Answer("add_to_cart", h, h.session, h.remember,
                                      "redirect_cart")
                          ELSE db_session_commit("add_to_cart", h, TRUE,
                                   [Tables EXCEPT !.cart_items[i].quantity = new_quantity],
                                   "redirect_cart")
                 ELSE db_session_commit("add_to_cart", h, TRUE,
                          [Tables EXCEPT !.cart_items = cart_items @@
                              (NextId(cart_items) :>
                                  [user_id |-> h.user, product_id |-> product_id,
                                   quantity |-> q])],
                          "redirect_cart")

(* Mutant: every cart item counts as the current user's *)
owns_cart_item_any(h, item) == TRUE

(* update_cart, remove_from_cart: cart_item.user_id != current_user.id     *)
owns_cart_item(h, item) == item.user_id = h.user

(* main/routes.py: update_cart *)
update_cart(ip, item_id, quantity) ==
    LET h == validate_session_security(session, remember, users, ip, now)
    IN  IF h.rejected THEN Rejected("update_cart", h)
        ELSE IF login_required(h) # "ok"
             THEN Answer("update_cart", h, h.session, h.remember, login_required(h))
        ELSE IF item_id \notin DOMAIN cart_items
             THEN Answer("update_cart", h, h.session, h.remember, "404")
        ELSE IF ~owns_cart_item(h, cart_items[item_id])
             THEN Answer("update_cart", h, h.session, h.remember, "403")
        ELSE IF quantity < 1
             THEN db_session_commit("update_cart", h, TRUE,
                      [Tables EXCEPT !.cart_items = Remaining(cart_items, {item_id})],
                      "redirect_cart")
        ELSE IF quantity > products[cart_items[item_id].product_id].stock
             THEN Answer("update_cart", h, h.session, h.remember, "redirect_cart")
        ELSE db_session_commit("update_cart", h, TRUE,
                 [Tables EXCEPT !.cart_items[item_id].quantity = quantity],
                 "redirect_cart")

(* main/routes.py: remove_from_cart *)
remove_from_cart(ip, item_id) ==
    LET h == validate_session_security(session, remember, users, ip, now)
    IN  IF h.rejected THEN Rejected("remove_from_cart", h)
        ELSE IF login_required(h) # "ok"
             THEN Answer("remove_from_cart", h, h.session, h.remember, login_required(h))
        ELSE IF item_id \notin DOMAIN cart_items
             THEN Answer("remove_from_cart", h, h.session, h.remember, "404")
        ELSE IF ~owns_cart_item(h, cart_items[item_id])
             THEN Answer("remove_from_cart", h, h.session, h.remember, "403")
        ELSE db_session_commit("remove_from_cart", h, TRUE,
                 [Tables EXCEPT !.cart_items = Remaining(cart_items, {item_id})],
                 "redirect_cart")

(* order_detail, get_order: order.user_id != current_user.id and not       *)
(* current_user.is_admin()                                                 *)
may_read_order(h, order) ==
    order.user_id = h.user \/ users[h.user].role = "admin"

(* main/routes.py: order_detail, and api/routes.py: get_order; the         *)
(* response "200" shows the order                                          *)
read_order(op, ip, order_id) ==
    LET h == validate_session_security(session, remember, users, ip, now)
    IN  IF h.rejected THEN Rejected(op, h)
        ELSE IF login_required(h) # "ok"
             THEN Answer(op, h, h.session, h.remember, login_required(h))
        ELSE IF order_id \notin DOMAIN orders
             THEN Answer(op, h, h.session, h.remember, "404")
        ELSE IF ~may_read_order(h, orders[order_id])
             THEN Answer(op, h, h.session, h.remember, "403")
        ELSE Answer(op, h, h.session, h.remember, "200")

order_detail(ip, order_id) == read_order("order_detail", ip, order_id)

get_order(ip, order_id) == read_order("get_order", ip, order_id)

(* The text of a card number is the tuple of its pieces, a piece being a  *)
(* run of digits or one whitespace character; the text of another field   *)
(* is a 1-tuple, '' is <<"">>.                                              *)
RECURSIVE join(_)
join(pieces) == IF pieces = <<>> THEN "" ELSE pieces[1] \o join(Tail(pieces))

(* card_number.replace(' ', '') *)
replace_spaces(text) == <<join(SelectSeq(text, LAMBDA piece : piece # " "))>>

(* bool(text) of a form field *)
truthy(text) == text # None /\ text # <<"">>

DeclinedCard == <<"0000000000000000">>

(* CheckoutForm submissions that pass the validators of app/forms.py *)
CardNumbers ==
    {<<"">>, <<"4242424242424242">>, DeclinedCard,
     <<"0000", " ", "0000", " ", "0000", " ", "0000">>}

CheckoutForms ==
    {[payment_method |-> "cash_on_delivery", card_number |-> <<"">>,
      card_expiry |-> <<"">>, card_cvv |-> <<"">>, bank_account |-> <<"">>]}
    \cup {[payment_method |-> m, card_number |-> n, card_expiry |-> <<"12/25">>,
           card_cvv |-> v, bank_account |-> <<"">>] :
             m \in {"credit_card", "debit_card"}, n \in CardNumbers,
             v \in {<<"">>, <<"123">>}}
    \cup {[payment_method |-> "bank_transfer", card_number |-> <<"">>,
           card_expiry |-> <<"">>, card_cvv |-> <<"">>, bank_account |-> b] :
             b \in {<<"">>, <<"DE89370400440532013000">>}}

(* Mutant: no card number is declined *)
payment_simulation_accepting(form) == "ok"

(* checkout, 'Payment Simulation Logic': the reason the submission is      *)
(* answered with the form again, or "ok"                                   *)
payment_simulation(form) ==
    IF form.payment_method \in {"credit_card", "debit_card"}
    THEN LET card_num == IF truthy(form.card_number)
                         THEN replace_spaces(form.card_number) ELSE <<"">>
         IN  IF ~truthy(card_num) \/ ~truthy(form.card_expiry) \/ ~truthy(form.card_cvv)
             THEN "card_details"
             ELSE IF card_num = DeclinedCard THEN "declined"
             ELSE "ok"
    ELSE IF form.payment_method = "bank_transfer"
    THEN IF ~truthy(form.bank_account) THEN "bank_account" ELSE "ok"
    ELSE "ok"

(* What checkout loads before it looks at the form: the cart items of the  *)
(* current user, lowest id first, and the product of each                  *)
load_cart(user_id) ==
    LET ids == Ascending(cart_items_of(user_id))
    IN  [user |-> user_id,
         items |-> [k \in DOMAIN ids |-> cart_items[ids[k]]],
         products |-> [p \in {cart_items[i].product_id : i \in cart_items_of(user_id)}
                          |-> products[p]]]

(* checkout, the checks of the cart *)
cart_check(c) ==
    IF c.items = <<>> THEN "empty"
    ELSE IF \E k \in DOMAIN c.items :
              \/ ~is_in_stock(c.products[c.items[k].product_id])
              \/ c.items[k].quantity > c.products[c.items[k].product_id].stock
         THEN "out_of_stock"
         ELSE "ok"

(* CartItem.get_total summed over the cart *)
RECURSIVE cart_total(_, _)
cart_total(c, k) ==
    IF k = 0 THEN 0
    ELSE c.products[c.items[k].product_id].price * c.items[k].quantity
         + cart_total(c, k - 1)

(* The Order(...) of checkout *)
CheckoutOrder(c, order_number, form) ==
    LET card == form.payment_method \in {"credit_card", "debit_card"}
    IN  [user_id |-> c.user,
         order_number |-> order_number,
         status |-> "pending",
         total_amount |-> cart_total(c, Len(c.items)),
         shipping_address |-> <<"123 Main St, City, State 12345">>,
         payment_method |-> form.payment_method,
         card_number |-> IF card THEN form.card_number ELSE None,
         card_expiry |-> IF card THEN form.card_expiry ELSE None,
         card_cvv |-> IF card THEN form.card_cvv ELSE None,
         bank_account |-> IF form.payment_method = "bank_transfer"
                          THEN form.bank_account ELSE None,
         notes |-> <<"">>,
         updated_at |-> 0]

(* Mutant: the line item takes the price 0 *)
OrderItem_free(order_id, cart_item, product) ==
    [order_id |-> order_id, product_id |-> cart_item.product_id,
     quantity |-> cart_item.quantity, price |-> 0]

(* The OrderItem(...) of checkout *)
OrderItem(order_id, cart_item, product) ==
    [order_id |-> order_id, product_id |-> cart_item.product_id,
     quantity |-> cart_item.quantity, price |-> product.price]

(* cart_item.product.stock -= cart_item.quantity, on the product as the    *)
(* request loaded it                                                       *)
ordered(c, p) ==
    LET k == CHOOSE k \in DOMAIN c.items : c.items[k].product_id = p
    IN  [c.products[p] EXCEPT !.stock = @ - c.items[k].quantity]

(* The flush of the changed products, lowest id first, each with its       *)
(* after_update event                                                      *)
RECURSIVE update_products(_, _, _, _, _)
update_products(connection, log, c, ids, ctx) ==
    IF ids = <<>> \/ log = Raised THEN log
    ELSE update_products(connection,
             after_update_listener(connection, log, "Product", ids[1],
                                   c.products[ids[1]], ordered(c, ids[1]), ctx),
             c, Tail(ids), ctx)

(* The transaction of checkout for the loaded cart c: the order is         *)
(* flushed, then the line items and the stock of the products; the cart    *)
(* items of the user are deleted by one DELETE statement.  The UPDATE of a *)
(* product writes the stock computed from the loaded product.              *)
checkout_tx(nonce, ctx, c, form, order_number, connection) ==
    LET id == NextId(orders)
        order == CheckoutOrder(c, order_number, form)
        inserted == after_insert_listener(connection, audit, "Order", id, order, ctx)
        first == NextId(order_items)
    IN  [users |-> users,
         orders |-> orders @@ (id :> PersistOrder(nonce, order)),
         products |-> [p \in DOMAIN products |->
                          IF p \in DOMAIN c.products
                          THEN FlushUpdate(nonce, ProductColumns, {}, products[p],
                                           c.products[p], ordered(c, p))
                          ELSE products[p]],
         cart_items |-> Remaining(cart_items, cart_items_of(c.user)),
         order_items |-> order_items @@
             [i \in first .. first + Len(c.items) - 1 |->
                 OrderItem(id, c.items[i - first + 1],
                           c.products[c.items[i - first + 1].product_id])],
         audit |-> update_products(connection, inserted, c,
                                   Ascending(DOMAIN c.products), ctx)]

(* The UPDATE of a product that was deleted meanwhile matches no row and   *)
(* the flush raises; an order number that is taken violates the unique     *)
(* index                                                                    *)
checkout_flushes(c, order_number) ==
    /\ DOMAIN c.products \subseteq DOMAIN products
    /\ \A o \in DOMAIN orders : orders[o].order_number # order_number

(* main/routes.py: checkout (POST), as one step *)
checkout(ip, form, order_number, connection, commit_ok) ==
    LET h == validate_session_security(session, remember, users, ip, now)
        c == load_cart(h.user)
    IN  IF h.rejected THEN Rejected("checkout", h)
        ELSE IF login_required(h) # "ok"
             THEN Answer("checkout", h, h.session, h.remember, login_required(h))
        ELSE IF cart_check(c) # "ok"
             THEN Answer("checkout", h, h.session, h.remember, cart_check(c))
        ELSE IF payment_simulation(form) # "ok"
             THEN Answer("checkout", h, h.session, h.remember, payment_simulation(form))
        ELSE \E nonce \in Nonces :
               db_session_commit("checkout", h,
                   commit_ok /\ checkout_flushes(c, order_number),
                   checkout_tx(nonce, RequestContext(h.user, ip), c, form,
                               order_number, connection),
                   "redirect_order_detail")

(* The same handler of a server that runs requests in parallel, in two     *)
(* steps: the request loads and checks the cart, other requests run, then  *)
(* it writes and commits.  A request in flight is [ip, cart].              *)
MaxCheckouts == 2

checkout_begin(ip) ==
    LET h == validate_session_security(session, remember, users, ip, now)
        c == load_cart(h.user)
    IN  IF h.rejected THEN Rejected("checkout", h)
        ELSE IF login_required(h) # "ok"
             THEN Answer("checkout", h, h.session, h.remember, login_required(h))
        ELSE IF cart_check(c) # "ok"
             THEN Answer("checkout", h, h.session, h.remember, cart_check(c))
        ELSE /\ Cardinality(checkouts) < MaxCheckouts
             /\ checkouts' = checkouts \cup {[ip |-> ip, cart |-> c]}
             /\ session' = h.session
             /\ remember' = h.remember
             /\ resp' = Response("checkout", "loaded", h.log)
             /\ UNCHANGED <<now, users, orders, products, cart_items, order_items, audit>>

checkout_finish(r, form, order_number) ==
    /\ r \in checkouts
    /\ checkouts' = checkouts \ {r}
    /\ UNCHANGED <<now, session, remember>>
    /\ IF payment_simulation(form) # "ok"
       THEN /\ resp' = Response("checkout", payment_simulation(form), "none")
            /\ UNCHANGED <<users, orders, products, cart_items, order_items, audit>>
       ELSE IF ~checkout_flushes(r.cart, order_number)
       THEN /\ resp' = Response("checkout", "500", "none")
            /\ UNCHANGED <<users, orders, products, cart_items, order_items, audit>>
       ELSE \E nonce \in Nonces :
              LET tx == checkout_tx(nonce, RequestContext(r.cart.user, r.ip), r.cart,
                                    form, order_number, "open")
              IN  /\ users' = tx.users
                  /\ orders' = tx.orders
                  /\ products' = tx.products
                  /\ cart_items' = tx.cart_items
                  /\ order_items' = tx.order_items
                  /\ audit' = tx.audit
                  /\ resp' = Response("checkout", "redirect_order_detail", "none")

(* The admin of the seed orders the product, then looks after the order   *)
(* and the product                                                         *)
MaxFrozenRows == 7

CashOnDelivery ==
    [payment_method |-> "cash_on_delivery", card_number |-> <<"">>,
     card_expiry |-> <<"">>, card_cvv |-> <<"">>, bank_account |-> <<"">>]

RequestFrozen(ip) ==
    \/ login(ip, 1, "admin123", FALSE, 0)
    \/ \E quantity \in {1, 6} : add_to_cart(ip, 1, quantity)
    \/ checkout(ip, CashOnDelivery, <<"ORD-123">>, "open", TRUE)
    \/ \E status \in Statuses : update_order_status(ip, 1, status, "open", TRUE)
    \/ \E stock \in Stocks :
          edit_product(ip, 1, <<"Laptop Computer">>, stock, None, "open", TRUE)
    \/ delete_product(ip, 1, "open", TRUE)
    \/ delete_order(ip, 1, "open", TRUE)

NextFrozen ==
    \/ seed
    \/ /\ seed_products \/ RequestFrozen(DayIP)
       /\ Len(audit') <= MaxFrozenRows
       /\ \A p \in DOMAIN products' : products'[p].updated_at <= MaxUpdates + 1
       /\ \A o \in DOMAIN orders' : orders'[o].updated_at <= MaxUpdates

SpecFrozen == Init /\ [][NextFrozen]_vars

(* The accounts of the seed fill their carts and order; the admin deletes *)
(* accounts                                                                *)
MaxCascadeRows == 7

RequestCascade(ip) ==
    \/ \E u \in Uids : u \in DOMAIN users /\ login(ip, u, users[u].password_hash[2], FALSE, 0)
    \/ logout(ip)
    \/ add_to_cart(ip, 1, 1)
    \/ checkout(ip, CashOnDelivery, <<"ORD-123">>, "open", TRUE)
    \/ \E u \in Uids : delete_user(ip, u, "open", TRUE)

NextCascade ==
    \/ seed
    \/ /\ seed_products \/ RequestCascade(DayIP)
       /\ Len(audit') <= MaxCascadeRows

SpecCascade == Init /\ [][NextCascade]_vars

(* Every route behind @login_required or admin_required, asked for by a   *)
(* browser that is logged in as the customer of the seed or not at all     *)
MaxGuardRows == 5

Guarded(ip) ==
    \/ PageRequest(ip, TRUE)
    \/ logout(ip)
    \/ \E phone \in {<<"">>, <<"555-0100">>} : profile(ip, phone, None)
    \/ change_password(ip, "customer123", "admin123")
    \/ \E s \in Secrets : enable_2fa_get(ip, s)
    \/ \E code \in Codes : enable_2fa_post(ip, code)
    \/ disable_2fa(ip)
    \/ add_to_cart(ip, 1, 6)
    \/ \E quantity \in {0, 1} : update_cart(ip, 1, quantity)
    \/ remove_from_cart(ip, 1)
    \/ checkout(ip, CashOnDelivery, <<"ORD-123">>, "open", TRUE)
    \/ order_detail(ip, 1)
    \/ get_order(ip, 1)
    \/ new_product(ip, <<"Mug">>, 5, None, "open", TRUE)
    \/ edit_product(ip, 1, <<"Mug">>, 5, None, "open", TRUE)
    \/ delete_product(ip, 1, "open", TRUE)
    \/ update_order_status(ip, 1, "shipped", "open", TRUE)
    \/ delete_order(ip, 1, "open", TRUE)
    \/ delete_user(ip, 1, "open", TRUE)

NextGuard ==
    \/ seed
    \/ seed_products
    \/ /\ \/ \E pw \in Passwords : login(DayIP, 2, pw, FALSE, 0)
          \/ Guarded(DayIP)
       /\ Len(audit') <= MaxGuardRows

SpecGuard == Init /\ [][NextGuard]_vars

(* Two accounts shop for the one product on a server that runs requests   *)
(* in parallel: a checkout loads and checks its cart, other requests run,  *)
(* then it writes and commits.                                             *)
MaxRaceRows == 7

RequestRace(ip) ==
    \/ login(ip, 1, "admin123", FALSE, 0)
    \/ login(ip, 2, "customer123", FALSE, 0)
    \/ logout(ip)
    \/ add_to_cart(ip, 1, 6)
    \/ update_cart(ip, 1, 1)
    \/ checkout_begin(ip)

NextRace ==
    \/ seed
    \/ /\ \/ seed_products
          \/ RequestRace(DayIP)
          \/ \E r \in checkouts, order_number \in OrderNumbers :
                checkout_finish(r, CashOnDelivery, order_number)
       /\ Len(audit') <= MaxRaceRows
       /\ DOMAIN cart_items' \subseteq Uids

SpecRace == Init /\ [][NextRace]_vars

(* The admin of the seed fills a cart with the two products of the        *)
(* catalogue and submits the checkout form; the flush or the commit may    *)
(* fail; the stock of the laptop may be edited down meanwhile.             *)
MaxCheckoutRows == 8
MaxQuantity == 6

(* One submission per payment method that the payment simulation lets pass *)
PaidForms ==
    {CashOnDelivery,
     [payment_method |-> "credit_card", card_number |-> <<"4242424242424242">>,
      card_expiry |-> <<"12/25">>, card_cvv |-> <<"123">>, bank_account |-> <<"">>],
     [payment_method |-> "bank_transfer", card_number |-> <<"">>,
      card_expiry |-> <<"">>, card_cvv |-> <<"">>,
      bank_account |-> <<"DE89370400440532013000">>]}

RequestCheckout(ip) ==
    \/ login(ip, 1, "admin123", FALSE, 0)
    \/ add_to_cart(ip, 1, 6)
    \/ add_to_cart(ip, 2, 3)
    \/ edit_product(ip, 1, <<"Laptop Computer">>, 5, None, "open", TRUE)
    \/ \E form \in PaidForms, fault \in Faults :
          checkout(ip, form, <<"ORD-123">>, FlushConnection(fault), fault # "commit")

NextCheckout ==
    \/ seed
    \/ /\ seed_catalog \/ RequestCheckout(DayIP)
       /\ Len(audit') <= MaxCheckoutRows
       /\ \A p \in DOMAIN products' : products'[p].updated_at <= MaxUpdates + 1
       /\ \A i \in DOMAIN cart_items' : cart_items'[i].quantity <= MaxQuantity

SpecCheckout == Init /\ [][NextCheckout]_vars

(* The admin of the seed puts the laptop in the cart and submits every    *)
(* checkout form; the stock of the laptop may be edited down meanwhile.    *)
MaxRejectRows == 6

RequestReject(ip) ==
    \/ login(ip, 1, "admin123", FALSE, 0)
    \/ add_to_cart(ip, 1, 6)
    \/ edit_product(ip, 1, <<"Laptop Computer">>, 5, None, "open", TRUE)
    \/ \E form \in CheckoutForms : checkout(ip, form, <<"ORD-123">>, "open", TRUE)

NextReject ==
    \/ seed
    \/ /\ seed_products \/ RequestReject(DayIP)
       /\ Len(audit') <= MaxRejectRows
       /\ \A p \in DOMAIN products' : products'[p].updated_at <= MaxUpdates + 1

SpecReject == Init /\ [][NextReject]_vars

(* The two accounts of the seed fill their carts and order; each asks for *)
(* the orders and the cart items of both.                                  *)
MaxOwnerRows == 7
MaxOwnerQuantity == 3

RequestOwner(ip) ==
    \/ login(ip, 1, "admin123", FALSE, 0)
    \/ login(ip, 2, "customer123", FALSE, 0)
    \/ logout(ip)
    \/ add_to_cart(ip, 1, 3)
    \/ \E order_number \in OrderNumbers :
          checkout(ip, CashOnDelivery, order_number, "open", TRUE)
    \/ \E i \in Uids, quantity \in {0, 1} : update_cart(ip, i, quantity)
    \/ \E i \in Uids : remove_from_cart(ip, i)
    \/ \E order_id \in Oids : order_detail(ip, order_id)
    \/ \E order_id \in Oids : get_order(ip, order_id)

NextOwner ==
    \/ seed
    \/ /\ seed_products \/ RequestOwner(DayIP)
       /\ Len(audit') <= MaxOwnerRows
       /\ DOMAIN cart_items' \subseteq Uids
       /\ \A i \in DOMAIN cart_items' : cart_items'[i].quantity <= MaxOwnerQuantity

SpecOwner == Init /\ [][NextOwner]_vars

(* Accounts made by registration enrol in and leave MFA, edit their       *)
(* profile and change their password.                                      *)
MaxMfaRows == 5

RequestMfa(ip) ==
    \/ register(ip, None, "customer123")
    \/ \E u \in Uids : login(ip, u, "customer123", FALSE, 0)
    \/ logout(ip)
    \/ \E s \in Secrets : enable_2fa_get(ip, s)
    \/ \E code \in Codes : enable_2fa_post(ip, code)
    \/ \E code \in Codes : verify_2fa_login(ip, code, 0)
    \/ disable_2fa(ip)
    \/ \E phone \in {None, <<"555-0100">>} : profile(ip, phone, None)
    \/ \E pw \in Passwords : change_password(ip, "customer123", pw)

NextMfa == RequestMfa(DayIP) /\ Len(audit') <= MaxMfaRows

SpecMfa == Init /\ [][NextMfa]_vars

(* The configuration and the timeouts: the application is started with    *)
(* PERMANENT_SESSION_LIFETIME unset or set to a number of seconds, and     *)
(* is_session_expired is called for a session of a given age that was last *)
(* active a given time ago.  The clock of the model counts minutes.        *)

(* config.py: int(os.getenv('PERMANENT_SESSION_LIFETIME', 86400)) *)
PERMANENT_SESSION_LIFETIME(environ) ==
    IF environ = None THEN 86400 ELSE environ[1]

Lifetimes == {None, <<3600>>, <<86400>>, <<172800>>}

ProbeTime == 2 * AbsoluteTimeout + 1

Ages ==
    {0, InactivityTimeout, InactivityTimeout + 1, 59, 60, 61,
     AbsoluteTimeout - 1, AbsoluteTimeout, AbsoluteTimeout + 1,
     2 * AbsoluteTimeout - 1, 2 * AbsoluteTimeout, ProbeTime}

Idles == {0, InactivityTimeout, InactivityTimeout + 1}

(* is_session_expired() in an application configured from environ: the     *)
(* response holds the configuration, the two ages and the returned value   *)
probe_expired(environ, age, idle) ==
    LET sess == [EmptySession EXCEPT !.login_id = 1, !.user_id = 1,
                                     !.ip_address = DayIP,
                                     !.login_time = isoformat(ProbeTime - age),
                                     !.last_activity = isoformat(ProbeTime - idle)]
    IN  /\ idle <= age
        /\ resp' = Response("is_session_expired",
                            [environ |-> environ, age |-> age, idle |-> idle],
                            is_session_expired(sess, ProbeTime))
        /\ UNCHANGED <<now, users, orders, products, cart_items, order_items,
                       checkouts, audit, session, remember>>

NextConfig ==
    \E environ \in Lifetimes, age \in Ages, idle \in Idles :
       probe_expired(environ, age, idle)

SpecConfig == Init /\ [][NextConfig]_vars

(* Refused logins: the seed accounts, one of them with MFA enabled or      *)
(* deactivated.  No route of the application clears User.is_active         *)
(* (models.py:55); an account is deactivated by an UPDATE issued outside    *)
(* the model layer, which fires no mapper event.  The account deactivated  *)
(* is not the one this browser is logged in as.                            *)
MaxRefuseAudit == 3

deactivate(u) ==
    /\ u \in DOMAIN users
    /\ users[u].is_active
    /\ session.login_id # u
    /\ remember # u
    /\ users' = [users EXCEPT ![u].is_active = FALSE]
    /\ resp' = Response("deactivate", "ok", "none")
    /\ UNCHANGED <<now, orders, products, cart_items, order_items, checkouts, audit, session, remember>>

RequestRefuse(ip) ==
    \/ \E u \in Uids \cup {MaxUsers + 1}, pw \in Passwords, rm \in BOOLEAN, d \in Elapsed :
          login(ip, u, pw, rm, d)
    \/ logout(ip)
    \/ \E s \in Secrets : enable_2fa_get(ip, s)
    \/ \E code \in Codes : enable_2fa_post(ip, code)

NextRefuse ==
    \/ seed
    \/ \E u \in Uids : deactivate(u)
    \/ /\ RequestRefuse(DayIP)
       /\ Len(audit') <= MaxRefuseAudit
       /\ now' <= MaxEnrollNow

SpecRefuse == Init /\ [][NextRefuse]_vars

(* The session's state between two requests *)
SessionAuthenticated == session.login_id \in DOMAIN users

RecordComplete ==
    /\ session.user_id # 0
    /\ session.ip_address # ""
    /\ session.login_time # None
    /\ session.last_activity # None

RecordAbsent ==
    /\ session.user_id = 0
    /\ session.ip_address = ""
    /\ session.login_time = None
    /\ session.last_activity = None

TypeOK ==
    /\ now \in 0 .. MaxDay
    /\ Len(audit) <= MaxAuditRows
    /\ remember \in 0 .. MaxUsers

----------------------------------------------------------------------------
(* C1: MFA login gate.  When the password step of login runs for an        *)
(* account whose mfa_enabled flag is set, a correct password leaves the    *)
(* session unauthenticated and without security record and stages only    *)
(* mfa_user_id; and every step that makes the session authenticated for    *)
(* an account whose flag is set is a verify_2fa_login request whose code   *)
(* is the current code of the account's persisted (decrypted) secret:     *)
(* no verify_2fa_login request with another code authenticates.            *)
C1_MfaLoginGate ==
    [][ /\ \A u \in DOMAIN users :
             ( /\ ~SessionAuthenticated
               /\ users[u].mfa_enabled
               /\ \E ip \in IPs, pw \in Passwords, rm \in BOOLEAN :
                     /\ users[u].password_hash = generate_password_hash(pw)
                     /\ login(ip, u, pw, rm, 0) )
             => /\ ~SessionAuthenticated'
                /\ RecordAbsent'
                /\ remember = 0 => session'.mfa_user_id = u
        /\ \A u \in DOMAIN users :
             ( /\ users[u].mfa_enabled
               /\ ~(SessionAuthenticated /\ session.login_id = u)
               /\ SessionAuthenticated' /\ session'.login_id = u )
             => /\ session.mfa_user_id = u
                /\ \E ip \in IPs, code \in Codes : verify_2fa_login(ip, code, 0)
        /\ \A ip \in IPs, code \in Codes :
             ( /\ ~SessionAuthenticated
               /\ SessionAuthenticated'
               /\ verify_2fa_login(ip, code, 0) )
             => code = <<process_result_value(users[session.mfa_user_id].mfa_secret)[1],
                         now>>
      ]_vars

C1_Witness ==
    /\ resp.op = "verify_2fa_login"
    /\ resp.status = "redirect_back"
    /\ SessionAuthenticated
    /\ RecordComplete
    /\ users[session.login_id].mfa_enabled

(* C2: in every reachable state the security record (user_id, ip_address,  *)
(* login_time, last_activity) is in the session if and only if the         *)
(* session is authenticated.                                               *)
C2_RecordIffAuthenticated ==
    /\ SessionAuthenticated => RecordComplete
    /\ ~SessionAuthenticated => RecordAbsent

C2_Witness ==
    /\ resp.op = "logout"
    /\ resp.status = "redirect_index"
    /\ ~SessionAuthenticated
    /\ RecordAbsent

(* A persisted value that shows no plaintext: NULL, or a token of encrypt *)
Opaque(value) ==
    \/ value = None
    \/ Len(value) = 4 /\ value[1] = "gcm"

(* C3: the plaintext of a non-null protected field of User (phone,         *)
(* address, mfa_secret) is in no persisted column: every protected column  *)
(* of every users row, and every value of a protected column in the        *)
(* details column of every audit row, is NULL or an encrypted token.       *)
C3_NoPlaintextPersisted ==
    /\ \A u \in DOMAIN users :
         \A c \in ProtectedColumns : Opaque(users[u][c])
    /\ \A i \in DOMAIN audit :
         \A c \in ProtectedColumns \cap DOMAIN audit[i].details :
            IF audit[i].action = "UPDATE"
            THEN /\ Opaque(audit[i].details[c].old)
                 /\ Opaque(audit[i].details[c].new)
            ELSE Opaque(audit[i].details[c])

----------------------------------------------------------------------------
(* What the hook does to a request it rejects: the user is logged out, the *)
(* security record is removed and the browser is sent to the login page.   *)
ForcedLogout ==
    /\ ~SessionAuthenticated'
    /\ RecordAbsent'
    /\ resp'.status = "session_invalid"

(* C4: a request on an authenticated session whose last activity is more   *)
(* than 30 minutes before now is rejected by the hook: the user is logged  *)
(* out and the security record is removed, whatever the request's address  *)
(* and however recent the login.                                           *)
C4_InactivityRejected ==
    [][ \A ip \in IPs :
          ( /\ SessionAuthenticated
            /\ RecordComplete
            /\ now - fromisoformat(session.last_activity) > InactivityTimeout
            /\ Request(ip) )
          => ForcedLogout
      ]_vars

(* The request came from the bound address less than 24 hours after the   *)
(* login and was rejected for inactivity.                                  *)
C4_Witness ==
    /\ resp.status = "session_invalid"
    /\ resp.log = "inactivity"
    /\ ~SessionAuthenticated
    /\ RecordAbsent

(* C5: a request on an authenticated session whose login is more than 24   *)
(* hours before now is rejected by the hook, also when the last activity   *)
(* is recent; validated requests leave the login time as it is, and after  *)
(* no request is the session authenticated with a login older than 24      *)
(* hours.                                                                  *)
C5_AbsoluteRejected ==
    [][ /\ ( /\ SessionAuthenticated
             /\ RecordComplete
             /\ now - fromisoformat(session.login_time) > AbsoluteTimeout
             /\ RequestDay(DayIP) )
           => ForcedLogout
        /\ ( /\ SessionAuthenticated
             /\ SessionAuthenticated' )
           => session'.login_time = session.login_time
        /\ ( /\ RequestDay(DayIP)
             /\ SessionAuthenticated' )
           => now' - fromisoformat(session'.login_time) <= AbsoluteTimeout
      ]_vars

(* Rejected for the absolute timeout: the inactivity check had passed *)
C5_Witness ==
    /\ resp.status = "session_invalid"
    /\ resp.log = "absolute"
    /\ ~SessionAuthenticated
    /\ RecordAbsent
    /\ now > AbsoluteTimeout

(* C6: a request on an authenticated session from an address other than    *)
(* the one bound at login is rejected by the hook, whatever the            *)
(* timestamps: the user is logged out and the security record is removed.  *)
C6_IpMismatchRejected ==
    [][ \A ip \in IPs :
          ( /\ SessionAuthenticated
            /\ RecordComplete
            /\ session.ip_address # ip
            /\ Request(ip) )
          => ForcedLogout
      ]_vars

C6_Witness ==
    /\ resp.status = "session_invalid"
    /\ resp.log = "ip_mismatch"
    /\ ~SessionAuthenticated
    /\ RecordAbsent

(* C7: a request on an authenticated session whose security record is     *)
(* absent, lacks any of its four fields or holds a timestamp that cannot   *)
(* be parsed is handled as an expiry: forced logout, record cleared,       *)
(* redirect to login.                                                      *)
C7_PartialRecordRejected ==
    [][ \A ip \in IPs :
          ( /\ SessionAuthenticated
            /\ \/ ~RecordComplete
               \/ ValueError(session.login_time)
               \/ ValueError(session.last_activity)
            /\ RequestDay(ip) )
          => ForcedLogout
      ]_vars

(* C8: for an authenticated session with a complete record,                *)
(* validate_session returns valid iff the request's address is the bound   *)
(* one, now - last activity <= 30 minutes and now - login time <= 24       *)
(* hours; when valid it sets last_activity to now and changes nothing      *)
(* else, when invalid it changes nothing.                                  *)
C8_ValidateSession ==
    ( SessionAuthenticated /\ RecordComplete )
    => \A ip \in IPs :
         LET v == validate_session(TRUE, session, ip, now)
             in_time ==
                 /\ now - fromisoformat(session.last_activity) <= InactivityTimeout
                 /\ now - fromisoformat(session.login_time) <= AbsoluteTimeout
         IN  /\ v.ok <=> (ip = session.ip_address /\ in_time)
             /\ v.ok => v.session = [session EXCEPT !.last_activity = isoformat(now)]
             /\ ~v.ok => v.session = session

(* A request validated exactly 24 hours after the login, last activity     *)
(* refreshed                                                               *)
C8_Witness ==
    /\ resp.op = "page"
    /\ resp.status = "ok"
    /\ SessionAuthenticated
    /\ RecordComplete
    /\ now - fromisoformat(session.login_time) = AbsoluteTimeout
    /\ session.last_activity = isoformat(now)

C10_NoPendingMfaState ==
    ( \/ resp.op \in {"login", "verify_2fa_login"} /\ resp.status = "redirect_back"
      \/ resp.op = "logout" /\ resp.status = "redirect_index" )
    => /\ session.mfa_user_id = 0
       /\ session.mfa_secret_setup = None

(* C11: the confirmation step of enable_2fa.  A code that verifies against *)
(* the pending secret of the session persists exactly that secret, sets    *)
(* mfa_enabled and removes the pending secret from the session; any other  *)
(* code leaves mfa_enabled false, the persisted secret as it was and the   *)
(* same pending secret in the session.                                     *)
C11_EnrollConfirmation ==
    [][ \A code \in EnrollCodes :
          LET h == validate_session_security(session, remember, users, DayIP, now)
              pending == session.mfa_secret_setup
          IN  ( /\ ~h.rejected
                /\ h.user # 0
                /\ ~users[h.user].mfa_enabled
                /\ pending # None
                /\ enable_2fa_post(DayIP, code) )
              => IF code = totp_at(pending, now)
                 THEN /\ users'[h.user].mfa_enabled
                      /\ decrypt(users'[h.user].mfa_secret) = pending
                      /\ session'.mfa_secret_setup = None
                 ELSE /\ ~users'[h.user].mfa_enabled
                      /\ users'[h.user].mfa_secret = users[h.user].mfa_secret
                      /\ session'.mfa_secret_setup = pending
      ]_vars

(* The second of the two candidate secrets was staged and confirmed *)
C11_Witness ==
    /\ resp.op = "enable_2fa_post"
    /\ resp.status = "redirect_profile"
    /\ SessionAuthenticated
    /\ users[session.login_id].mfa_enabled
    /\ decrypt(users[session.login_id].mfa_secret) = <<"S2">>
    /\ session.mfa_secret_setup = None

(* C12: verify_2fa_login on an unauthenticated session that holds the      *)
(* pending-login marker of an enrolled account.  A code that is not the    *)
(* current code of the account's persisted secret changes nothing: the     *)
(* session stays unauthenticated, without security record and with the     *)
(* same marker, so the next submission is checked in the same way (the     *)
(* handler takes no password); the code that verifies completes the login  *)
(* and removes the marker.                                                 *)
C12_VerifyRetry ==
    [][ \A code \in EnrollCodes, d \in Elapsed :
          LET h == validate_session_security(session, remember, users, DayIP, now)
              u == session.mfa_user_id
          IN  ( /\ ~h.rejected
                /\ h.user = 0
                /\ u \in DOMAIN users
                /\ users[u].mfa_secret # None
                /\ verify_2fa_login(DayIP, code, d) )
              => IF code = totp_at(decrypt(users[u].mfa_secret), now)
                 THEN /\ SessionAuthenticated'
                      /\ session'.login_id = u
                      /\ RecordComplete'
                      /\ session'.mfa_user_id = 0
                      /\ resp'.status = "redirect_back"
                 ELSE /\ session' = session
                      /\ ~SessionAuthenticated'
                      /\ RecordAbsent'
                      /\ users' = users
                      /\ resp'.status = "invalid_code"
      ]_vars

(* A code was refused and the marker is still in the session *)
C12_Witness ==
    /\ resp.op = "verify_2fa_login"
    /\ resp.status = "invalid_code"
    /\ session.mfa_user_id \in DOMAIN users
    /\ ~SessionAuthenticated
    /\ RecordAbsent

(* C13: every step that takes the session from unauthenticated to          *)
(* authenticated initialises the security record with user_id = the        *)
(* account that logged in, ip_address = the remote address of the request, *)
(* and login_time = last_activity = the time of the request.               *)
C13_RecordInitialised ==
    [][ \A ip \in IPs :
          ( /\ ~SessionAuthenticated
            /\ SessionAuthenticated'
            /\ RequestLogin(ip) )
          => /\ session'.user_id = session'.login_id
             /\ session'.ip_address = ip
             /\ session'.login_time = isoformat(now)
             /\ session'.last_activity = session'.login_time
      ]_vars

(* C13, as the code has it: login_time and last_activity are two           *)
(* successive readings of the clock taken while the request is handled,    *)
(* so login_time <= last_activity, with equality only when the clock did   *)
(* not advance between the two readings.                                   *)
C13_RecordInitialisedTwoReads ==
    [][ \A ip \in IPs :
          ( /\ ~SessionAuthenticated
            /\ SessionAuthenticated'
            /\ RequestLogin(ip) )
          => /\ session'.user_id = session'.login_id
             /\ session'.ip_address = ip
             /\ session'.login_time = isoformat(now)
             /\ session'.last_activity = isoformat(now')
             /\ now <= now'
      ]_vars

(* A login whose two timestamps differ *)
C13_Witness ==
    /\ resp.op \in {"login", "verify_2fa_login"}
    /\ resp.status = "redirect_back"
    /\ SessionAuthenticated
    /\ RecordComplete
    /\ fromisoformat(session.login_time) < fromisoformat(session.last_activity)

(* C14: a GET of enable_2fa for an account without MFA stages the new      *)
(* secret in the session only and writes nothing to the account; the       *)
(* enabled flag of an account is set by no step but a confirmation that    *)
(* succeeded; and for an account that has MFA enabled every enable_2fa     *)
(* request, GET or POST, is answered "already enabled" and changes neither *)
(* the account nor the session.                                            *)
C14_EnrollStaging ==
    [][ LET h == validate_session_security(session, remember, users, DayIP, now)
        IN  /\ \A s \in EnrollSecrets :
                 ( /\ ~h.rejected
                   /\ h.user # 0
                   /\ ~users[h.user].mfa_enabled
                   /\ enable_2fa_get(DayIP, s) )
                 => /\ users' = users
                    /\ audit' = audit
                    /\ session'.mfa_secret_setup = <<s>>
            /\ \A u \in DOMAIN users :
                 ( /\ ~users[u].mfa_enabled
                   /\ users'[u].mfa_enabled )
                 => /\ resp'.op = "enable_2fa_post"
                    /\ resp'.status = "redirect_profile"
            /\ ( /\ ~h.rejected
                 /\ h.user # 0
                 /\ users[h.user].mfa_enabled
                 /\ \/ \E s \in EnrollSecrets : enable_2fa_get(DayIP, s)
                    \/ \E code \in EnrollCodes : enable_2fa_post(DayIP, code) )
               => /\ resp'.status = "already_enabled"
                  /\ users' = users
                  /\ audit' = audit
                  /\ session' = h.session
      ]_vars

(* An enrolled account asked for enrollment again *)
C14_Witness ==
    /\ resp.op \in {"enable_2fa_get", "enable_2fa_post"}
    /\ resp.status = "already_enabled"
    /\ SessionAuthenticated
    /\ users[session.login_id].mfa_enabled
    /\ users[session.login_id].mfa_secret # None

(* The account was enrolled at some time and disable_2fa was committed     *)
(* for it: the audit row of that UPDATE is in the log.                     *)
WasDisabled(u) ==
    \E i \in DOMAIN audit :
       /\ audit[i].action = "UPDATE"
       /\ audit[i].resource_id = <<"str", u>>
       /\ "mfa_enabled" \in DOMAIN audit[i].details
       /\ audit[i].details["mfa_enabled"].new = FALSE

(* C15: disable_2fa on an authenticated session, which takes neither code  *)
(* nor password, leaves the account with mfa_enabled false and a null      *)
(* persisted secret whatever they were; and a correct password for an      *)
(* account whose flag is false makes the session authenticated in that     *)
(* one request, with no TOTP step.                                         *)
C15_DisableMfa ==
    [][ LET h == validate_session_security(session, remember, users, DayIP, now)
        IN  /\ ( /\ ~h.rejected
                 /\ h.user # 0
                 /\ disable_2fa(DayIP) )
               => /\ ~users'[h.user].mfa_enabled
                  /\ users'[h.user].mfa_secret = None
                  /\ resp'.status = "redirect_profile"
            /\ \A u \in DOMAIN users, pw \in Passwords, d \in Elapsed :
                 ( /\ ~h.rejected
                   /\ h.user = 0
                   /\ ~users[u].mfa_enabled
                   /\ check_password(users[u], pw)
                   /\ login(DayIP, u, pw, FALSE, d) )
                 => /\ SessionAuthenticated'
                    /\ session'.login_id = u
                    /\ RecordComplete'
                    /\ resp'.status = "redirect_back"
      ]_vars

(* A password-only login of an account whose MFA had been disabled *)
C15_Witness ==
    /\ resp.op = "login"
    /\ resp.status = "redirect_back"
    /\ SessionAuthenticated
    /\ WasDisabled(session.login_id)
    /\ ~users[session.login_id].mfa_enabled
    /\ users[session.login_id].mfa_secret = None

(* C16: a registration that writes the phone v through the model layer.    *)
(* For every non-null v (the empty string and a token-valued string        *)
(* included) the reloaded entity holds v, the stored column differs from v *)
(* and decrypts to v; a null v is stored as NULL and read back as null.    *)
C16_WriteThenRead ==
    [][ \A phone \in Strings \cup {None} :
          LET id == NextId(users)
          IN  ( /\ register(DayIP, phone, "customer123")
                /\ id \in DOMAIN users' )
              => IF phone = None
                 THEN /\ users'[id].phone = None
                      /\ LoadEntity(users'[id]).phone = None
                 ELSE /\ LoadEntity(users'[id]).phone = phone
                      /\ users'[id].phone # phone
                      /\ decrypt(users'[id].phone) = phone
      ]_vars

(* A registered phone that is itself a token reads back as that token *)
C16_Witness ==
    /\ resp.op = "register"
    /\ \E id \in DOMAIN users :
          /\ IsToken(users[id].phone)
          /\ IsToken(LoadEntity(users[id]).phone)
          /\ LoadEntity(users[id]).phone \in Strings

C19_FailClosed ==
    ( /\ resp.op = "decrypt"
      /\ resp.status # None
      /\ ~IsToken(resp.status) )
    => resp.log = None

(* C20: the commit that creates a User writes exactly one audit row for    *)
(* it: action INSERT, resource type User, resource id the id as a string,  *)
(* details holding the value of every column of the entity.                *)
C20_AuditOnInsert ==
    [][ \A phone \in Strings \cup {None} :
          LET id == NextId(users)
              user == NewUser("customer123", "customer", phone, None)
          IN  ( /\ register(DayIP, phone, "customer123")
                /\ id \in DOMAIN users' )
              => /\ Len(audit') = Len(audit) + 1
                 /\ SubSeq(audit', 1, Len(audit)) = audit
                 /\ LET row == audit'[Len(audit')]
                    IN  /\ row.action = "INSERT"
                        /\ row.resource_type = "User"
                        /\ row.resource_id = <<"str", id>>
                        /\ DOMAIN row.details = UserColumns
                        /\ \A c \in UserColumns : row.details[c] = user[c]
      ]_vars

(* The second row of the table was registered; the first one, written with *)
(* raw SQL, has no audit row                                               *)
C20_Witness ==
    /\ resp.op = "register"
    /\ resp.status = "redirect_login"
    /\ Cardinality(DOMAIN users) = 2
    /\ Len(audit) = 1
    /\ audit[1].action = "INSERT"
    /\ audit[1].resource_id = <<"str", 2>>

(* The audit rows a step appended *)
NewRows == SubSeq(audit', Len(audit) + 1, Len(audit'))

(* The details of a row that holds every column of an entity *)
AllColumns(row, resource_type, entity) ==
    /\ DOMAIN row.details = column_attrs(resource_type)
    /\ \A c \in column_attrs(resource_type) : row.details[c] = entity[c]

(* C22: a committed save of an order whose submitted status is the status  *)
(* it already has changes no column and writes no audit row: the audit     *)
(* table is the same before and after.                                     *)
C22_NoOpUpdate ==
    [][ \A o \in Oids, status \in Statuses :
          ( /\ update_order_status(DayIP, o, status, "open", TRUE)
            /\ resp'.status = "redirect_order_detail"
            /\ LoadOrder(orders[o]).status = status )
          => /\ audit' = audit
             /\ orders' = orders
      ]_vars

(* A status was saved and committed and the table holds no UPDATE row *)
C22_Witness ==
    /\ resp.op = "update_order_status"
    /\ resp.status = "redirect_order_detail"
    /\ DOMAIN orders # {}
    /\ \A i \in DOMAIN audit : audit[i].action # "UPDATE"

(* C23: a committed deletion appends exactly one DELETE row for each       *)
(* entity removed, with the entity's type, its id as a string and every    *)
(* column as loaded before the removal: one row for a deleted order, and   *)
(* for a deleted user one row for each of its orders and one for the user. *)
C23_AuditOnDelete ==
    [][ /\ \A o \in Oids :
             ( /\ delete_order(DayIP, o, "open", TRUE)
               /\ o \in DOMAIN orders
               /\ o \notin DOMAIN orders' )
             => /\ SubSeq(audit', 1, Len(audit)) = audit
                /\ Len(NewRows) = 1
                /\ NewRows[1].action = "DELETE"
                /\ NewRows[1].resource_type = "Order"
                /\ NewRows[1].resource_id = <<"str", o>>
                /\ AllColumns(NewRows[1], "Order", LoadOrder(orders[o]))
        /\ \A u \in Uids :
             ( /\ delete_user(DayIP, u, "open", TRUE)
               /\ u \in DOMAIN users
               /\ u \notin DOMAIN users' )
             => /\ SubSeq(audit', 1, Len(audit)) = audit
                /\ DOMAIN orders' = DOMAIN orders \ orders_of(u)
                /\ Len(NewRows) = Cardinality(orders_of(u)) + 1
                /\ \A i \in DOMAIN NewRows : NewRows[i].action = "DELETE"
                /\ \A o \in orders_of(u) :
                     \E i \in DOMAIN NewRows :
                       /\ NewRows[i].resource_type = "Order"
                       /\ NewRows[i].resource_id = <<"str", o>>
                       /\ AllColumns(NewRows[i], "Order", LoadOrder(orders[o]))
                /\ \E i \in DOMAIN NewRows :
                       /\ NewRows[i].resource_type = "User"
                       /\ NewRows[i].resource_id = <<"str", u>>
                       /\ AllColumns(NewRows[i], "User", LoadEntity(users[u]))
      ]_vars

(* A user with two orders was deleted: two DELETE rows for the orders and  *)
(* one for the user                                                        *)
C23_Witness ==
    /\ resp.op = "delete_user"
    /\ resp.status = "redirect_users"
    /\ Len(audit) = 7
    /\ audit[5].action = "DELETE" /\ audit[5].resource_type = "Order"
    /\ audit[6].action = "DELETE" /\ audit[6].resource_type = "Order"
    /\ audit[5].resource_id # audit[6].resource_id
    /\ audit[7].action = "DELETE" /\ audit[7].resource_type = "User"
    /\ DOMAIN orders = {}

(* C25: the audit table is append-only: every step keeps the rows it       *)
(* found, in place and unchanged, the deletion of the user a row names as  *)
(* actor or describes as resource included.                                *)
C25_AppendOnly ==
    [][ /\ Len(audit') >= Len(audit)
        /\ SubSeq(audit', 1, Len(audit)) = audit
      ]_vars

(* User 2 is deleted; the table still holds the row of its creation and a  *)
(* row it wrote itself                                                     *)
C25_Witness ==
    /\ resp.op = "delete_user"
    /\ 2 \notin DOMAIN users
    /\ \E i \in DOMAIN audit :
         /\ audit[i].action = "INSERT"
         /\ audit[i].resource_type = "User"
         /\ audit[i].resource_id = <<"str", 2>>
    /\ \E i \in DOMAIN audit : audit[i].user_id = 2
    /\ audit[Len(audit)].action = "DELETE"

(* C28: the rows a request appends name the user the request is            *)
(* authenticated as (no actor when it is anonymous) and the remote address *)
(* of the request; the rows written by manage.py, outside any request,     *)
(* name no actor and the origin 'system'.                                  *)
C28_ActorAttribution ==
    [][ /\ RequestActor(DayIP)
           => LET h == validate_session_security(session, remember, users, DayIP, now)
              IN  \A i \in DOMAIN NewRows :
                    /\ NewRows[i].ip_address = DayIP
                    /\ h.user # 0 => NewRows[i].user_id = h.user
                    /\ h.user = 0 => NewRows[i].user_id = 0
        /\ seed
           => \A i \in DOMAIN NewRows :
                /\ NewRows[i].user_id = 0
                /\ NewRows[i].ip_address = "system"
      ]_vars

(* One table with rows of the three origins: the seed, the admin's         *)
(* deletion of user 2 and an anonymous registration                        *)
C28_Witness ==
    /\ Len(audit) = 4
    /\ audit[1].user_id = 0 /\ audit[1].ip_address = "system"
    /\ audit[3].action = "DELETE" /\ audit[3].user_id = 1 /\ audit[3].ip_address = DayIP
    /\ audit[4].action = "INSERT" /\ audit[4].user_id = 0 /\ audit[4].ip_address = DayIP

(* The request of DayIP passes the hook and admin_required *)
AdminRequest ==
    LET h == validate_session_security(session, remember, users, DayIP, now)
    IN  ~h.rejected /\ admin_required(h) = "ok"

(* The UPDATE row of product p lists the columns of a set, each with the   *)
(* value before and after the step                                         *)
UpdateRowFor(p, changed) ==
    IF changed = {} THEN audit' = audit
    ELSE /\ SubSeq(audit', 1, Len(audit)) = audit
         /\ Len(NewRows) = 1
         /\ NewRows[1].action = "UPDATE"
         /\ NewRows[1].resource_type = "Product"
         /\ NewRows[1].resource_id = <<"str", p>>
         /\ DOMAIN NewRows[1].details = changed
         /\ \A c \in changed :
              NewRows[1].details[c] = [old |-> products[p][c], new |-> products'[p][c]]

(* C21 as stated: a committed edit of a product appends one UPDATE row     *)
(* whose keys are exactly the columns whose value changed in the row (one  *)
(* key when one column changed), each with its previous and new value.     *)
C21_UpdateDiff ==
    [][ \A p \in Pids, name \in ProductNames, stock \in Stocks, filename \in Images :
          ( /\ edit_product(DayIP, p, name, stock, filename, "open", TRUE)
            /\ p \in DOMAIN products
            /\ resp'.status = "redirect_products" )
          => UpdateRowFor(p, {c \in ProductColumns : products[p][c] # products'[p][c]})
      ]_vars

(* C21, amended: a committed edit of a product appends one UPDATE row      *)
(* whose keys are exactly the columns the handler gave another value (one  *)
(* key when it changed one column), each with its previous and new value;  *)
(* no row when it changed none.  updated_at, which the flush refreshes     *)
(* with every UPDATE it emits, changes in the row and is not a key.        *)
C21_UpdateDiffAssigned ==
    [][ \A p \in Pids, name \in ProductNames, stock \in Stocks, filename \in Images :
          ( /\ edit_product(DayIP, p, name, stock, filename, "open", TRUE)
            /\ p \in DOMAIN products
            /\ resp'.status = "redirect_products" )
          => LET changed == {c \in ProductColumns \ {"updated_at"} :
                                products[p][c] # products'[p][c]}
             IN  /\ UpdateRowFor(p, changed)
                 /\ changed # {} <=> products'[p].updated_at # products[p].updated_at
      ]_vars

(* The last edit changed the stock only: one UPDATE row with the one key *)
C21_Witness ==
    /\ resp.op = "edit_product"
    /\ resp.status = "redirect_products"
    /\ Len(audit) > 0
    /\ audit[Len(audit)].action = "UPDATE"
    /\ DOMAIN audit[Len(audit)].details = {"stock"}
    /\ audit[Len(audit)].details.stock = [old |-> 5, new |-> 7]
    /\ products[1].stock = 7

(* C24: no audit row is about an AuditLog row: every row describes an      *)
(* entity of a class given to register_audit_listeners, create_audit_log   *)
(* called with an AuditLog target leaves the table as it is (with a target *)
(* of an audited class and an open connection it would add one row), and a *)
(* step appends at most one row for an action on an entity.                *)
C24_NoSelfAudit ==
    [][ /\ \A i \in DOMAIN audit' : audit'[i].resource_type \in AuditedModels
        /\ \A connection \in Connections :
             record("AuditLog", connection)
             => audit' = audit
        /\ \A resource_type \in AuditedModels :
             record(resource_type, "open")
             => Len(audit') = Len(audit) + 1
        /\ \A i, j \in DOMAIN NewRows :
             ( /\ NewRows[i].action = NewRows[j].action
               /\ NewRows[i].resource_type = NewRows[j].resource_type
               /\ NewRows[i].resource_id = NewRows[j].resource_id )
             => i = j
      ]_vars

(* The recorder was called with an AuditLog target and an open connection  *)
(* on a table that holds rows                                              *)
C24_Witness ==
    /\ resp.op = "create_audit_log"
    /\ resp.status = "AuditLog"
    /\ resp.log = "open"
    /\ Len(audit) >= 3

(* C26: when the insert of the audit row raises, the request of the admin  *)
(* still commits: the response is the redirect, the products are those of  *)
(* the run with an open connection, and only the audit rows of that run    *)
(* are missing.                                                            *)
C26_AuditFailureContained ==
    [][ AdminRequest =>
        LET ctx == RequestContext(
                     validate_session_security(session, remember, users, DayIP, now).user,
                     DayIP)
        IN  /\ \A filename \in Images :
                 ( /\ new_product(DayIP, <<"Mug">>, 5, filename, "failing", TRUE)
                   /\ NextId(products) \in Pids
                   /\ slug_free(slugify(<<"Mug">>), {}) )
                 => \E nonce \in Nonces :
                      LET good == new_product_tx(nonce, ctx, <<"Mug">>, 5, filename, "open")
                      IN  /\ resp'.status = "redirect_products"
                          /\ products' = good.products
                          /\ good.audit # audit
                          /\ audit' = audit
            /\ \A p \in Pids, stock \in Stocks :
                 ( /\ edit_product(DayIP, p, <<"Mug">>, stock, None, "failing", TRUE)
                   /\ p \in DOMAIN products )
                 => \E nonce \in Nonces :
                      LET good == edit_product_tx(nonce, ctx, p, <<"Mug">>, stock, None, "open")
                      IN  /\ resp'.status = "redirect_products"
                          /\ products' = good.products
                          /\ audit' = audit
            /\ \A p \in Pids :
                 ( /\ delete_product(DayIP, p, "failing", TRUE)
                   /\ p \in DOMAIN products )
                 => LET good == delete_product_tx(ctx, p, "open")
                    IN  /\ resp'.status = "redirect_products"
                        /\ products' = good.products
                        /\ good.audit # audit
                        /\ audit' = audit
      ]_vars

(* A product was created and committed and no row of the table is about a  *)
(* product                                                                 *)
C26_Witness ==
    /\ resp.op = "new_product"
    /\ resp.status = "redirect_products"
    /\ DOMAIN products # {}
    /\ \A i \in DOMAIN audit : audit[i].resource_type # "Product"

(* C27: with an open connection the product change of a request and its   *)
(* audit rows are persisted together or not at all: a request whose COMMIT *)
(* fails after the flush leaves the products and the audit table as they   *)
(* were, and every request changes the products if and only if it appends  *)
(* audit rows; a created product has its INSERT row, and its UPDATE row    *)
(* when an image was saved.                                                *)
C27_SameTransaction ==
    [][ AdminRequest =>
        \A fault \in {"none", "commit"} :
          LET rolled_back == /\ products' = products
                             /\ audit' = audit
                             /\ resp'.status = "500"
              together == (products' # products) <=> (audit' # audit)
          IN  /\ \A filename \in Images :
                   ( /\ new_product(DayIP, <<"Mug">>, 5, filename, "open", fault # "commit")
                     /\ NextId(products) \in Pids )
                   => IF fault = "commit" \/ ~slug_free(slugify(<<"Mug">>), {})
                      THEN rolled_back
                      ELSE /\ NextId(products) \in DOMAIN products'
                           /\ Len(NewRows) = IF filename = None THEN 1 ELSE 2
                           /\ NewRows[1].action = "INSERT"
                           /\ NewRows[1].resource_id = <<"str", NextId(products)>>
                           /\ filename # None => NewRows[2].action = "UPDATE"
              /\ \A p \in Pids, stock \in Stocks :
                   ( /\ edit_product(DayIP, p, <<"Mug">>, stock, None, "open", fault # "commit")
                     /\ p \in DOMAIN products )
                   => /\ together
                      /\ fault = "commit" => rolled_back
              /\ \A p \in Pids :
                   ( /\ delete_product(DayIP, p, "open", fault # "commit")
                     /\ p \in DOMAIN products )
                   => /\ together
                      /\ fault = "commit" => rolled_back
      ]_vars

(* The COMMIT of new_product failed: no product and no row about one *)
C27_Witness ==
    /\ resp.op = "new_product"
    /\ resp.status = "500"
    /\ DOMAIN products = {}
    /\ \A i \in DOMAIN audit : audit[i].resource_type # "Product"

(* C29: a cipher exists only for a configured key that base64-decodes to   *)
(* exactly 32 bytes; for no key, and for every key that does not decode    *)
(* or decodes to another number of bytes, the constructor raises the       *)
(* configuration error.                                                    *)
C29_KeyChecked ==
    resp.op = "AESCipher"
    => LET key_str == IF resp.status.key # Unset THEN resp.status.key
                      ELSE resp.status.environ
       IN  resp.log = "cipher"
           <=> (key_str # Unset /\ urlsafe_b64decode(key_str) = <<KeyLength>>)

LineItems(table, order_id) ==
    {[product_id |-> table[i].product_id, quantity |-> table[i].quantity,
      price |-> table[i].price] : i \in {j \in DOMAIN table : table[j].order_id = order_id}}

(* The columns of an order that are not its status or a timestamp *)
FrozenColumns == OrderColumns \ {"status", "updated_at"}

(* C31: no step changes the order number, owner, total amount, shipping    *)
(* address, payment fields or line items of an order that exists before    *)
(* and after the step.                                                      *)
C31_OrderFrozen ==
    [][ \A o \in DOMAIN orders \cap DOMAIN orders' :
          /\ \A c \in FrozenColumns : orders'[o][c] = orders[o][c]
          /\ LineItems(order_items', o) = LineItems(order_items, o)
      ]_vars

Anonymous == load_user(session, remember, users).user = 0

(* C33: a request of an anonymous browser for a route behind              *)
(* @login_required or admin_required is answered with the redirect to      *)
(* login; no table and nothing of the session changes.                     *)
C33_LoginRequired ==
    [][ (Anonymous /\ Guarded(DayIP))
        => /\ resp'.status = "login_required"
           /\ UNCHANGED <<users, orders, products, cart_items, order_items, audit>>
           /\ session' = session
      ]_vars

(* The customer logged out; the checkout of the next request was answered  *)
(* with the redirect although the cart holds an item                       *)
C33_Witness ==
    /\ resp.op = "checkout"
    /\ resp.status = "login_required"
    /\ DOMAIN cart_items # {}
    /\ session.login_id = 0

(* C34: a login attempt by an anonymous browser with an unknown e-mail, a *)
(* wrong password, or the right password of a deactivated account leaves   *)
(* the session as it was: not authenticated, no security record, no        *)
(* pending-login marker, no remember-me cookie; nothing is written.        *)
Refused(u, password) ==
    \/ u \notin DOMAIN users
    \/ users[u].password_hash # generate_password_hash(password)
    \/ ~users[u].is_active

C34_RefusedLogin ==
    [][ \A u \in Uids \cup {MaxUsers + 1}, pw \in Passwords, rm \in BOOLEAN, d \in Elapsed :
          (Anonymous /\ Refused(u, pw) /\ login(DayIP, u, pw, rm, d))
            => /\ session' = session
               /\ remember' = remember
               /\ session'.login_id = 0
               /\ session'.user_id = 0 /\ session'.login_time = None
               /\ session'.mfa_user_id = session.mfa_user_id
               /\ resp'.status \in {"invalid_credentials", "deactivated"}
               /\ UNCHANGED <<now, users, audit>>
      ]_vars

(* The right password of a deactivated account whose MFA is enabled was    *)
(* refused                                                                 *)
C34_Witness ==
    /\ resp.op = "login"
    /\ resp.status = "deactivated"
    /\ \E u \in DOMAIN users : ~users[u].is_active /\ users[u].mfa_enabled
    /\ session.login_id = 0
    /\ session.mfa_user_id = 0

(* C35: every product's stock is >= 0, and the quantity recorded in the  *)
(* order line items of a product never exceeds the stock the product had   *)
(* before those orders (no route of this specification restocks, so that   *)
(* is the stock of the seed).                                              *)
RECURSIVE quantity_sold(_, _)
quantity_sold(ids, product_id) ==
    IF ids = {} THEN 0
    ELSE LET i == CHOOSE i \in ids : TRUE
         IN  (IF order_items[i].product_id = product_id
              THEN order_items[i].quantity ELSE 0)
             + quantity_sold(ids \ {i}, product_id)

C35_NoOversell ==
    \A p \in DOMAIN products :
        /\ products[p].stock >= 0
        /\ quantity_sold(DOMAIN order_items, p) <= SeedProduct.stock

(* The quantity of a product in a set of cart items *)
RECURSIVE quantity_in_cart(_, _)
quantity_in_cart(ids, product_id) ==
    IF ids = {} THEN 0
    ELSE LET i == CHOOSE i \in ids : TRUE
         IN  (IF cart_items[i].product_id = product_id
              THEN cart_items[i].quantity ELSE 0)
             + quantity_in_cart(ids \ {i}, product_id)

(* C36: a successful checkout creates exactly one order, pending and owned *)
(* by the current user, with one line item per cart item carrying the      *)
(* item's product and quantity and the product's price, and the total the  *)
(* sum of price * quantity; each product's stock goes down by the ordered  *)
(* quantity and the user's cart is empty; a checkout whose flush or commit *)
(* fails persists none of it.                                              *)
RECURSIVE cart_value(_)
cart_value(ids) ==
    IF ids = {} THEN 0
    ELSE LET i == CHOOSE i \in ids : TRUE
         IN  products[cart_items[i].product_id].price * cart_items[i].quantity
             + cart_value(ids \ {i})

CartLines(ids) ==
    {[product_id |-> cart_items[i].product_id, quantity |-> cart_items[i].quantity,
      price |-> products[cart_items[i].product_id].price] : i \in ids}

CheckedOut(user_id) ==
    LET mine == cart_items_of(user_id)
        created == DOMAIN orders' \ DOMAIN orders
    IN  /\ Cardinality(created) = 1
        /\ \A o \in DOMAIN orders : orders'[o] = orders[o]
        /\ \A o \in created :
              /\ orders'[o].user_id = user_id
              /\ orders'[o].status = "pending"
              /\ orders'[o].total_amount = cart_value(mine)
              /\ LineItems(order_items', o) = CartLines(mine)
              /\ Cardinality({j \in DOMAIN order_items' : order_items'[j].order_id = o})
                    = Cardinality(mine)
        /\ \A j \in DOMAIN order_items : order_items'[j] = order_items[j]
        /\ DOMAIN products' = DOMAIN products
        /\ \A p \in DOMAIN products :
              products'[p].stock =
                  products[p].stock - quantity_in_cart(mine, p)
        /\ \A i \in DOMAIN cart_items' : cart_items'[i].user_id # user_id
        /\ \A i \in DOMAIN cart_items \ mine :
              i \in DOMAIN cart_items' /\ cart_items'[i] = cart_items[i]

C36_CheckoutAllOrNothing ==
    [][ \A form \in PaidForms, fault \in Faults :
          checkout(DayIP, form, <<"ORD-123">>, FlushConnection(fault), fault # "commit")
            => /\ resp'.status = "redirect_order_detail" => CheckedOut(session.login_id)
               /\ resp'.status # "redirect_order_detail"
                     => UNCHANGED <<users, orders, products, cart_items, order_items, audit>>
      ]_vars

(* An order with two line items was placed and the cart is empty *)
C36_Witness ==
    /\ resp.op = "checkout"
    /\ resp.status = "redirect_order_detail"
    /\ \E o \in DOMAIN orders :
          /\ Cardinality(LineItems(order_items, o)) = 2
          /\ cart_items_of(orders[o].user_id) = {}
    /\ products[1].stock < SeedProduct.stock

(* C37: a checkout submission that is rejected (empty cart, a cart item   *)
(* out of stock or above the stock, card details missing for a card        *)
(* payment, bank account missing for a bank transfer, the declined card    *)
(* number with or without spaces) creates no order and no audit row and    *)
(* leaves the cart and the stock of every product as they were.            *)
Blank(text) == text = None \/ text = <<"">>

CartRejected(user_id) ==
    \/ cart_items_of(user_id) = {}
    \/ \E i \in cart_items_of(user_id) :
          \/ ~products[cart_items[i].product_id].is_active
          \/ products[cart_items[i].product_id].stock <= 0
          \/ cart_items[i].quantity > products[cart_items[i].product_id].stock

FormRejected(form) ==
    \/ /\ form.payment_method \in {"credit_card", "debit_card"}
       /\ \/ Blank(form.card_number) \/ Blank(form.card_expiry) \/ Blank(form.card_cvv)
          \/ join(SelectSeq(form.card_number, LAMBDA piece : piece # " "))
                = "0000000000000000"
    \/ /\ form.payment_method = "bank_transfer"
       /\ Blank(form.bank_account)

C37_RejectedCheckout ==
    [][ \A form \in CheckoutForms :
          (/\ ~Anonymous
           /\ CartRejected(session.login_id) \/ FormRejected(form)
           /\ checkout(DayIP, form, <<"ORD-123">>, "open", TRUE))
            => /\ resp'.status \in {"empty", "out_of_stock", "card_details",
                                    "declined", "bank_account"}
               /\ UNCHANGED <<users, orders, products, cart_items, order_items, audit>>
      ]_vars

(* The declined card number was submitted for a cart that could be ordered *)
C37_Witness ==
    /\ resp.op = "checkout"
    /\ resp.status = "declined"
    /\ cart_items_of(session.login_id) # {}
    /\ ~CartRejected(session.login_id)
    /\ orders = <<>>

(* C38: a user who is not an admin never reads another user's order, on  *)
(* the order page or through the API, and no user, admin or not, changes   *)
(* or removes another user's cart item: the request is answered with 403   *)
(* and the order and the cart item stay as they were.                      *)
CurrentUser == validate_session_security(session, remember, users, DayIP, now)

Forbidden ==
    /\ resp'.status = "403"
    /\ UNCHANGED <<users, orders, products, cart_items, order_items, audit>>

C38_OwnerOnly ==
    [][ /\ \A i \in Uids, quantity \in {0, 1} :
             (/\ ~CurrentUser.rejected /\ CurrentUser.user # 0
              /\ i \in DOMAIN cart_items
              /\ cart_items[i].user_id # CurrentUser.user
              /\ update_cart(DayIP, i, quantity) \/ remove_from_cart(DayIP, i))
               => Forbidden
        /\ \A order_id \in Oids :
             (/\ ~CurrentUser.rejected /\ CurrentUser.user # 0
              /\ order_id \in DOMAIN orders
              /\ orders[order_id].user_id # CurrentUser.user
              /\ users[CurrentUser.user].role # "admin"
              /\ order_detail(DayIP, order_id) \/ get_order(DayIP, order_id))
               => Forbidden
      ]_vars

(* The admin asked to change the cart item of the customer *)
C38_Witness ==
    /\ resp.op \in {"update_cart", "remove_from_cart"}
    /\ resp.status = "403"
    /\ session.login_id = 1
    /\ \E i \in DOMAIN cart_items : cart_items[i].user_id = 2
    /\ \E o \in DOMAIN orders : orders[o].user_id = 1

(* C39: an account whose mfa_enabled flag is true has a non-null          *)
(* persisted MFA secret, which loads as a non-null secret for the TOTP     *)
(* step of login.                                                          *)
C39_EnabledHasSecret ==
    \A u \in DOMAIN users :
        users[u].mfa_enabled
          => /\ users[u].mfa_secret # None
             /\ LoadEntity(users[u]).mfa_secret # None

(* An enrolled account edited its profile *)
C39_Witness ==
    /\ resp.op = "profile"
    /\ resp.status = "redirect_profile"
    /\ session.login_id \in DOMAIN users
    /\ users[session.login_id].mfa_enabled
    /\ users[session.login_id].phone # None

(* C40: the absolute timeout applied by session validation is the        *)
(* configured duration (default 24 hours): a session that was active       *)
(* within the inactivity timeout is rejected exactly when its age exceeds  *)
(* the configured lifetime.                                                *)
C40_ConfiguredTimeout ==
    (resp.op = "is_session_expired" /\ resp.status.idle <= InactivityTimeout)
      => (resp.log <=> resp.status.age * 60
                         > PERMANENT_SESSION_LIFETIME(resp.status.environ))

====
